---- MODULE Spec2Model ----
(***************************************************************************)
(* Access-flow engine and postback receiver of the maffpock Telegram bot.  *)
(*                                                                         *)
(* The ledger is the SQL database: the users table, the deposits table     *)
(* and the settings singleton.  Every handler is translated as a function  *)
(* from the ledger, the request and the answers of the outside world (the  *)
(* Telegram getChatMember call) to the new ledger and the messages sent.   *)
(* Money is counted in cents (Numeric(12, 2)).  A Python None, a SQL NULL  *)
(* and an unset environment variable are all the value None.               *)
(***************************************************************************)
EXTENDS Integers, Sequences, FiniteSets, Bags, TLC

None == "None"

\* a request parameter that was not sent (params.get gives None); a sent
\* parameter is a character string, possibly the empty one
Absent == <<"absent">>

\* users.trader_id while it is NULL
NoTrader == <<>>

\* ------------------------------------------------------------------------
\* Bounds of the model
\* ------------------------------------------------------------------------

\* rows the deposits table may hold
MaxDeposits == 2

\* the largest id the users table hands out
MaxUserId == 2

\* ------------------------------------------------------------------------
\* State
\* ------------------------------------------------------------------------

VARIABLES
    users,      \* rows of table users (set of records)
    deposits,   \* rows of table deposits (bag of [user_id, amount])
    settings,   \* rows of table settings: none, or the row with id 1
    env,        \* process environment: mini-app URLs and postback secret
    last,       \* observation of the operation that ran last
    scn,        \* how far the run has followed the happy-path scenario
    tasks       \* handlers suspended between their lookup and their write

vars == <<users, deposits, settings, env, last, scn, tasks>>

\* ------------------------------------------------------------------------
\* Request parameters are character strings: sequences of one-character
\* strings.  int() and float() are modelled on them.
\* ------------------------------------------------------------------------

Digits == {"0", "1", "2", "3", "4", "5", "6", "7", "8", "9"}

DigitVal(c) ==
    CASE c = "0" -> 0 [] c = "1" -> 1 [] c = "2" -> 2 [] c = "3" -> 3
      [] c = "4" -> 4 [] c = "5" -> 5 [] c = "6" -> 6 [] c = "7" -> 7
      [] c = "8" -> 8 [] c = "9" -> 9

RECURSIVE Strip(_)
\* str.strip() as int() and float() apply it to their argument
Strip(s) ==
    IF s = <<>> THEN s
    ELSE IF Head(s) = " " THEN Strip(Tail(s))
    ELSE IF s[Len(s)] = " " THEN Strip(SubSeq(s, 1, Len(s) - 1))
    ELSE s

AllDigits(s) == \A i \in 1..Len(s) : s[i] \in Digits

RECURSIVE DecimalValue(_)
DecimalValue(s) ==
    IF s = <<>> THEN 0
    ELSE 10 * DecimalValue(SubSeq(s, 1, Len(s) - 1)) + DigitVal(s[Len(s)])

\* the sign of a numeric literal and the rest of it
SignOf(s) == IF s # <<>> /\ Head(s) = "-" THEN -1 ELSE 1
Unsigned(s) == IF s # <<>> /\ Head(s) \in {"-", "+"} THEN Tail(s) ELSE s

\* int(str(click_id)): ok = FALSE stands for ValueError
ParseInt(raw) ==
    LET body == Unsigned(Strip(raw))
    IN  IF body # <<>> /\ AllDigits(body)
        THEN [ok |-> TRUE, val |-> SignOf(Strip(raw)) * DecimalValue(body)]
        ELSE [ok |-> FALSE, val |-> 0]

\* str.replace(",", ".")
ReplaceComma(s) == [i \in 1..Len(s) |-> IF s[i] = "," THEN "." ELSE s[i]]

DotAt(s) == {i \in 1..Len(s) : s[i] = "."}

\* two fraction digits as cents ("5" is 50 cents)
FracCents(f) ==
    IF f = <<>> THEN 0
    ELSE IF Len(f) = 1 THEN 10 * DigitVal(f[1])
    ELSE 10 * DigitVal(f[1]) + DigitVal(f[2])

\* float(str(raw).replace(",", ".")), in cents: ok = FALSE stands for
\* ValueError.  float() accepts the literal nan and returns the NaN value
\* (nan = TRUE).  Literals carry at most two fraction digits, the precision
\* of the column.
ParseFloat(raw) ==
    LET s    == Strip(ReplaceComma(raw))
        body == Unsigned(s)
        dots == DotAt(body)
        dot  == CHOOSE i \in dots : TRUE
        ip   == IF dots = {} THEN body ELSE SubSeq(body, 1, dot - 1)
        fp   == IF dots = {} THEN <<>> ELSE SubSeq(body, dot + 1, Len(body))
    IN  IF body = <<"n", "a", "n">>
        THEN [ok |-> TRUE, nan |-> TRUE, val |-> 0]
        ELSE IF /\ Cardinality(dots) <= 1
                /\ AllDigits(ip) /\ AllDigits(fp)
                /\ Len(ip) + Len(fp) > 0
                /\ Len(fp) <= 2
        THEN [ok |-> TRUE, nan |-> FALSE,
              val |-> SignOf(s) * (100 * DecimalValue(ip) + FracCents(fp))]
        ELSE [ok |-> FALSE, nan |-> FALSE, val |-> 0]

\* ------------------------------------------------------------------------
\* Rows
\* ------------------------------------------------------------------------

\* User(telegram_id=tg) with the column defaults of the model
NewUser(id, tg) ==
    [id |-> id, telegram_id |-> tg, language |-> None,
     is_subscribed |-> FALSE, is_registered |-> FALSE,
     has_basic_access |-> FALSE, is_vip |-> FALSE, trader_id |-> NoTrader]

\* the result of a lookup that finds no row (ids start at 1)
NoUser == NewUser(0, 0)

\* Settings(id=1) with the column defaults of the model
DefaultSettings ==
    [ref_link |-> None, deposit_link |-> None,
     channel_id |-> None, channel_url |-> None,
     require_subscription |-> TRUE, require_deposit |-> TRUE,
     deposit_required_amount |-> 0, vip_threshold_amount |-> 0,
     postbacks_chat_id |-> None,
     send_postbacks_registration |-> FALSE,
     send_postbacks_deposit |-> FALSE,
     send_postbacks_withdraw |-> FALSE]

\* the ledger as one value; settings is the table, holding no row or one
Ledger == [users |-> users, deposits |-> deposits, settings |-> settings]

\* the settings row (session.get(Settings, 1)) of a table that holds it
SettingsRow(db) == CHOOSE st \in db.settings : TRUE

SetMax(S) == CHOOSE x \in S : \A y \in S : y <= x

\* INTEGER PRIMARY KEY of SQLite: one more than the largest id in the table
NextUserId(us) == IF us = {} THEN 1 ELSE SetMax({u.id : u \in us}) + 1

\* select(User).where(User.telegram_id == tg).scalar_one_or_none()
UserByTg(db, tg) ==
    IF \E u \in db.users : u.telegram_id = tg
    THEN CHOOSE u \in db.users : u.telegram_id = tg
    ELSE NoUser

\* session.get(User, id)
UserById(db, id) ==
    IF \E u \in db.users : u.id = id
    THEN CHOOSE u \in db.users : u.id = id
    ELSE NoUser

\* UPDATE users SET ... WHERE id = u.id, committed
PutUser(db, u) ==
    [db EXCEPT !.users = {x \in @ : x.id # u.id} \cup {u}]

RECURSIVE SumRows(_, _)
SumRows(bag, rows) ==
    IF rows = {} THEN 0
    ELSE LET r == CHOOSE x \in rows : TRUE
         IN  r.amount * CopiesIn(r, bag) + SumRows(bag, rows \ {r})

\* _get_total_deposit as SUM(DISTINCT amount): the variant TotalIsSumOfRows
\* rules out
_get_total_deposit_distinct(db, user_id) ==
    SumRows(SetToBag(BagToSet(db.deposits)),
            {r \in BagToSet(db.deposits) : r.user_id = user_id})

\* SELECT coalesce(sum(amount), 0) FROM deposits WHERE user_id = :user_id
_get_total_deposit(db, user_id) ==
    SumRows(db.deposits, {r \in BagToSet(db.deposits) : r.user_id = user_id})

\* ------------------------------------------------------------------------
\* Messages the bot sends to a user: the presentation actions of the engine
\* ------------------------------------------------------------------------

Msg(kind) == [kind |-> kind, vip |-> FALSE, required |-> 0, current |-> 0]

StepPrompts == {"subscription", "registration", "deposit", "config_error"}

\* _get_miniapp_url_for_user: "vip", "basic" or None
_get_miniapp_url_for_user(e, user) ==
    IF user.is_vip /\ e.vip_url THEN "vip"
    ELSE IF e.basic_url THEN "basic"
    ELSE None

\* _open_miniapp: the mini-app keyboard, or a warning that no URL is set
_open_miniapp(e, user) ==
    IF _get_miniapp_url_for_user(e, user) = None
    THEN Msg("miniapp_url_missing")
    ELSE [Msg("miniapp") EXCEPT !.vip = (_get_miniapp_url_for_user(e, user) = "vip")]

\* ------------------------------------------------------------------------
\* Access-flow engine (bot/handlers/main_menu.py)
\* ------------------------------------------------------------------------

\* _get_or_create_user(tg_id): the ledger after it and the row it returns
_get_or_create_user(db, tg) ==
    IF UserByTg(db, tg) # NoUser
    THEN [db |-> db, user |-> UserByTg(db, tg)]
    ELSE LET u == NewUser(NextUserId(db.users), tg)
         IN  [db |-> [db EXCEPT !.users = @ \cup {u}], user |-> u]

\* _get_settings() writing the defaults over the row it finds: the variant
\* SettingsSingleton rules out
_get_settings_reset(db) == [db EXCEPT !.settings = {DefaultSettings}]

\* _get_settings(): the settings row is created on first read
_get_settings(db) ==
    IF db.settings = {} THEN [db EXCEPT !.settings = {DefaultSettings}] ELSE db

\* _is_subscribed_via_api taking a failed call for a membership: the
\* variant FailClosed rules out
_is_subscribed_via_api_fail_open(channel_id, api) ==
    IF channel_id = None THEN TRUE
    ELSE IF api = "error" THEN TRUE
    ELSE api \in {"member", "administrator", "creator"}

\* _is_subscribed_via_api: api is the answer of getChatMember, a member
\* status or "error" when the call raises
_is_subscribed_via_api(channel_id, api) ==
    IF channel_id = None THEN TRUE
    ELSE IF api = "error" THEN FALSE
    ELSE api \in {"member", "administrator", "creator"}

\* HasAccess forgetting has_basic_access: the variant IdempotentGrant rules out
HasAccess_vip_only(user) == user.is_vip

\* _run_flow's test for the fallback path: access was granted before
HasAccess(user) == user.has_basic_access \/ user.is_vip

\* NeedsRegistration looking at the flag alone: the variant
\* TraderRefRegisters rules out
NeedsRegistration_flag_only(user) == ~user.is_registered

\* NeedsRegistration with the trader_id test inverted: the variant
\* RegistrationUnconditional rules out
NeedsRegistration_or(user) == ~user.is_registered /\ user.trader_id # NoTrader

\* _run_flow's test of the registration step
NeedsRegistration(user) == ~user.is_registered /\ user.trader_id = NoTrader

\* The engine threads a context through its steps: the ledger, the User
\* object and Settings object read at the start (snapshots, not re-read),
\* the messages sent so far, the deposit total it read (totals lists the
\* reads, none before step 3), and whether the
\* invocation has returned, whether it reached the grant step, and the
\* answer of getChatMember when it asked; down tells that the user's chat
\* cannot be reached, raised that a send raised and ended the invocation.
FlowStart(db, user) ==
    [db |-> db, user |-> user, s |-> SettingsRow(db), msgs |-> <<>>,
     total |-> 0, totals |-> <<>>, stop |-> FALSE, granted |-> FALSE,
     api |-> None, down |-> FALSE, raised |-> FALSE]

\* bot.send_message / bot.send_photo to the user, the last statement of
\* every branch of _run_flow: the message is delivered, or the call raises
Say(c, m) ==
    IF c.down THEN [c EXCEPT !.raised = TRUE, !.stop = TRUE]
    ELSE [c EXCEPT !.msgs = Append(@, m), !.stop = TRUE]

\* step 1 of _run_flow: subscription
FlowSubscription(c, api) ==
    IF ~c.s.require_subscription THEN c
    ELSE
      LET subscribed == ~c.user.is_subscribed
                        /\ _is_subscribed_via_api(c.s.channel_id, api)
          db_user == UserById(c.db, c.user.id)
          asked == ~c.user.is_subscribed /\ c.s.channel_id # None
          c0 == IF asked THEN [c EXCEPT !.api = api] ELSE c
          c1 == IF subscribed
                THEN [c0 EXCEPT
                        !.db = IF db_user # NoUser
                               THEN PutUser(@, [db_user EXCEPT !.is_subscribed = TRUE])
                               ELSE @,
                        !.user.is_subscribed = TRUE]
                ELSE c0
      IN  IF ~c1.user.is_subscribed THEN Say(c1, Msg("subscription")) ELSE c1

\* FlowRegistration without the ref_link test: the variant
\* MisconfiguredRegistration rules out
FlowRegistration_no_link_test(c) ==
    IF NeedsRegistration(c.user) THEN Say(c, Msg("registration")) ELSE c

\* step 2 of _run_flow: registration, always required
FlowRegistration(c) ==
    IF NeedsRegistration(c.user)
    THEN IF c.s.ref_link = None
         THEN Say(c, Msg("config_error"))
         ELSE Say(c, Msg("registration"))
    ELSE c

\* FlowDeposit without the test of the required amount: the variant
\* DepositStep rules out
FlowDeposit_no_amount_test(c) ==
    LET required_dep  == c.s.deposit_required_amount
        total_deposit == _get_total_deposit(c.db, c.user.id)
        c1 == [c EXCEPT !.total = total_deposit, !.totals = <<total_deposit>>]
    IN  IF ~c.s.require_deposit THEN c1
        ELSE IF total_deposit < required_dep
        THEN IF c.s.deposit_link = None
             THEN Say(c1, Msg("config_error"))
             ELSE Say(c1, [Msg("deposit") EXCEPT !.required = required_dep,
                                                 !.current = total_deposit])
        ELSE c1

\* FlowDeposit asking for more than the required amount: the variant
\* HappyPath rules out
FlowDeposit_strict(c) ==
    LET required_dep  == c.s.deposit_required_amount
        total_deposit == _get_total_deposit(c.db, c.user.id)
        c1 == [c EXCEPT !.total = total_deposit, !.totals = <<total_deposit>>]
    IN  IF ~c.s.require_deposit THEN c1
        ELSE IF required_dep <= 0 THEN Say(c1, Msg("config_error"))
        ELSE IF total_deposit <= required_dep
        THEN IF c.s.deposit_link = None
             THEN Say(c1, Msg("config_error"))
             ELSE Say(c1, [Msg("deposit") EXCEPT !.required = required_dep,
                                                 !.current = total_deposit])
        ELSE c1

\* step 3 of _run_flow: deposit; the total is read whether or not the step
\* is required
FlowDeposit(c) ==
    LET required_dep  == c.s.deposit_required_amount
        total_deposit == _get_total_deposit(c.db, c.user.id)
        c1 == [c EXCEPT !.total = total_deposit, !.totals = <<total_deposit>>]
    IN  IF ~c.s.require_deposit THEN c1
        ELSE IF required_dep <= 0 THEN Say(c1, Msg("config_error"))
        ELSE IF total_deposit < required_dep
        THEN IF c.s.deposit_link = None
             THEN Say(c1, Msg("config_error"))
             ELSE Say(c1, [Msg("deposit") EXCEPT !.required = required_dep,
                                                 !.current = total_deposit])
        ELSE c1

\* FlowGrant without the test that the VIP threshold is positive: the
\* variant GrantVip rules out
FlowGrant_any_threshold(c) ==
    LET vip_thr    == c.s.vip_threshold_amount
        is_vip_now == c.user.is_vip \/ c.total >= vip_thr
        db_user    == UserById(c.db, c.user.id)
        c1 == [c EXCEPT
                 !.db = IF db_user # NoUser
                        THEN PutUser(@, [db_user EXCEPT
                                 !.has_basic_access = TRUE,
                                 !.is_vip = IF is_vip_now THEN TRUE ELSE @])
                        ELSE @,
                 !.user.has_basic_access = TRUE,
                 !.user.is_vip = IF is_vip_now THEN TRUE ELSE @,
                 !.granted = TRUE]
    IN  Say(c1, [Msg("access_granted") EXCEPT !.vip = is_vip_now])

\* step 4 of _run_flow: grant access, and VIP by the deposit total
FlowGrant(c) ==
    LET vip_thr    == c.s.vip_threshold_amount
        is_vip_now == c.user.is_vip \/ (vip_thr > 0 /\ c.total >= vip_thr)
        db_user    == UserById(c.db, c.user.id)
        c1 == [c EXCEPT
                 !.db = IF db_user # NoUser
                        THEN PutUser(@, [db_user EXCEPT
                                 !.has_basic_access = TRUE,
                                 !.is_vip = IF is_vip_now THEN TRUE ELSE @])
                        ELSE @,
                 !.user.has_basic_access = TRUE,
                 !.user.is_vip = IF is_vip_now THEN TRUE ELSE @,
                 !.granted = TRUE]
    IN  Say(c1, [Msg("access_granted") EXCEPT !.vip = is_vip_now])

\* the head of _run_flow: the user row (created when absent) and the
\* settings row (created when absent) are read once
FlowBegin(db, e, tg) ==
    LET got == _get_or_create_user(db, tg)
    IN  [FlowStart(_get_settings(got.db), got.user) EXCEPT
            !.down = "user" \in e.down]

\* _run_flow without the return after the subscription prompt: the variant
\* OnePresentation rules out
_run_flow_no_return(db, e, tg, api) ==
    LET c0 == FlowBegin(db, e, tg)
    IN  IF HasAccess(c0.user)
        THEN Say(c0, _open_miniapp(e, c0.user))
        ELSE LET c1 == FlowSubscription(c0, api)
                 c2 == FlowRegistration([c1 EXCEPT !.stop = FALSE]) IN
             IF c2.stop THEN c2 ELSE
             LET c3 == FlowDeposit(c2) IN
             IF c3.stop THEN c3 ELSE FlowGrant(c3)

\* _run_flow(bot, chat_id, tg_id) = run_access_flow_for_user(bot, tg_id)
_run_flow(db, e, tg, api) ==
    LET c0 == FlowBegin(db, e, tg)
    IN  IF HasAccess(c0.user)
        THEN Say(c0, _open_miniapp(e, c0.user))
        ELSE LET c1 == FlowSubscription(c0, api) IN
             IF c1.stop THEN c1 ELSE
             LET c2 == FlowRegistration(c1) IN
             IF c2.stop THEN c2 ELSE
             LET c3 == FlowDeposit(c2) IN
             IF c3.stop THEN c3 ELSE FlowGrant(c3)

\* notify_vip_granted(bot, tg_id): reads the user (creating the row when it
\* is absent) and sends the VIP message
notify_vip_granted(db, e, tg) ==
    [db |-> _get_or_create_user(db, tg).db,
     msgs |-> IF "user" \in e.down THEN <<>> ELSE <<Msg("vip_granted")>>,
     raised |-> "user" \in e.down]

\* notify_basic_access_limited / notify_vip_access_limited: read the
\* language and the settings, send the "top up" message
notify_access_limited(db, e, kind) ==
    [db |-> _get_settings(db),
     msgs |-> IF "user" \in e.down THEN <<>> ELSE <<Msg(kind)>>,
     raised |-> "user" \in e.down]

\* ------------------------------------------------------------------------
\* Postback receiver (postback_app.py)
\* ------------------------------------------------------------------------

\* the value of BROKER_POSTBACK_SECRET when it is set
Secret == "s3cret"

\* check_secret: TRUE when the request is let through
check_secret(e, req) ==
    \/ e.secret = None
    \/ req.secret_q = e.secret
    \/ req.secret_h = e.secret

\* `not value` of a request parameter: absent or the empty string
Falsy(raw) == raw = Absent \/ raw = <<>>

\* what a handler did: the ledger it leaves, the HTTP answer, the messages
\* sent to the user, the notifications forwarded to the operations chat,
\* how many times the engine was invoked, and the deposit totals it read;
\* trace lists, in the order they happened, the handler's commit
\* ("commit"), its call of the engine ("advance"), its call of
\* notify_vip_granted ("notify") and its send to the operations chat
\* ("forward"); errors lists the calls among them that raised, and raised
\* tells that the handler itself ended with that exception
Outcome(db, resp) ==
    [db |-> db, resp |-> resp, msgs |-> <<>>, group |-> <<>>, flows |-> 0,
     flow_total |-> <<>>, pb_total |-> <<>>, became_vip |-> FALSE,
     granted |-> FALSE, api |-> None, trace |-> <<>>, errors |-> <<>>,
     raised |-> FALSE]

\* session.commit() of a handler
Committed(o) == [o EXCEPT !.trace = Append(@, "commit")]

\* the handler's run of the engine merged into its outcome
WithFlow(o, e, tg, api) ==
    LET f == _run_flow(o.db, e, tg, api)
    IN  [o EXCEPT !.db = f.db, !.msgs = @ \o f.msgs, !.flows = @ + 1,
                  !.flow_total = f.totals, !.granted = f.granted,
                  !.api = f.api, !.trace = Append(@, "advance"),
                  !.errors = IF f.raised THEN Append(@, "advance") ELSE @]

\* the handler's call of notify_vip_granted / notify_*_access_limited
\* merged into its outcome
WithNotice(o, n) ==
    [o EXCEPT !.db = n.db, !.msgs = @ \o n.msgs,
              !.trace = Append(@, "notify"),
              !.errors = IF n.raised THEN Append(@, "notify") ELSE @]

\* a handler that calls the engine or a notification outside try/except
\* ends with the exception the call raised
Unguarded(o) == [o EXCEPT !.raised = (o.errors # <<>>)]

\* send_postback_to_group without the try/except around its send: the
\* variant DeliveryFailureSwallowed rules out
send_postback_to_group_unguarded(o, e, kind) ==
    LET db1 == _get_settings(o.db)
        st  == SettingsRow(db1)
        on  == CASE kind = "registration" -> st.send_postbacks_registration
                 [] kind = "deposit"      -> st.send_postbacks_deposit
                 [] kind = "withdraw"     -> st.send_postbacks_withdraw
    IN  IF e.settings_fail THEN [o EXCEPT !.errors = Append(@, "settings")]
        ELSE IF st.postbacks_chat_id = None \/ ~on
        THEN [o EXCEPT !.db = db1]
        ELSE IF "ops" \in e.down
        THEN [o EXCEPT !.db = db1, !.trace = Append(@, "forward"),
                       !.errors = Append(@, "forward"),
                       !.resp = "500", !.raised = TRUE]
        ELSE [o EXCEPT !.db = db1, !.group = Append(@, kind),
                       !.trace = Append(@, "forward")]

\* send_postback_to_group reading the deposit switch for withdrawals too:
\* the variant ForwardGated rules out
send_postback_to_group_one_switch(o, e, kind) ==
    LET db1 == _get_settings(o.db)
        st  == SettingsRow(db1)
        on  == CASE kind = "registration" -> st.send_postbacks_registration
                 [] kind = "deposit"      -> st.send_postbacks_deposit
                 [] kind = "withdraw"     -> st.send_postbacks_deposit
    IN  IF e.settings_fail THEN [o EXCEPT !.errors = Append(@, "settings")]
        ELSE IF st.postbacks_chat_id = None \/ ~on
        THEN [o EXCEPT !.db = db1]
        ELSE IF "ops" \in e.down
        THEN [o EXCEPT !.db = db1, !.trace = Append(@, "forward"),
                       !.errors = Append(@, "forward")]
        ELSE [o EXCEPT !.db = db1, !.group = Append(@, kind),
                       !.trace = Append(@, "forward")]

\* send_postback_to_group(kind, ...): loads (or creates) the settings and
\* forwards the event when a chat is set and the kind is switched on; a
\* failure to load the settings and a send that raises are logged and
\* ignored
send_postback_to_group(o, e, kind) ==
    LET db1 == _get_settings(o.db)
        st  == SettingsRow(db1)
        on  == CASE kind = "registration" -> st.send_postbacks_registration
                 [] kind = "deposit"      -> st.send_postbacks_deposit
                 [] kind = "withdraw"     -> st.send_postbacks_withdraw
    IN  IF e.settings_fail THEN [o EXCEPT !.errors = Append(@, "settings")]
        ELSE IF st.postbacks_chat_id = None \/ ~on
        THEN [o EXCEPT !.db = db1]
        ELSE IF "ops" \in e.down
        THEN [o EXCEPT !.db = db1, !.trace = Append(@, "forward"),
                       !.errors = Append(@, "forward")]
        ELSE [o EXCEPT !.db = db1, !.group = Append(@, kind),
                       !.trace = Append(@, "forward")]

\* postback_registration calling the engine before it writes: the variant
\* RegistrationOrder rules out
postback_registration_flow_first(db, e, req, api) ==
    IF ~check_secret(e, req) THEN Outcome(db, "403")
    ELSE IF Falsy(req.trader_id) \/ Falsy(req.click_id)
    THEN Outcome(db, "MISSING_PARAMS")
    ELSE IF ~ParseInt(req.click_id).ok THEN Outcome(db, "BAD_CLICK_ID")
    ELSE
      LET tg_id == ParseInt(req.click_id).val
          o0    == WithFlow(Outcome(db, "OK"), e, tg_id, api)
          user  == UserByTg(o0.db, tg_id)
          o1    == Committed([o0 EXCEPT !.db =
                       PutUser(@, [user EXCEPT !.trader_id = req.trader_id,
                                               !.is_registered = TRUE])])
      IN  send_postback_to_group(o1, e, "registration")

\* /postback/registration
postback_registration(db, e, req, api) ==
    IF ~check_secret(e, req) THEN Outcome(db, "403")
    ELSE IF Falsy(req.trader_id) \/ Falsy(req.click_id)
    THEN Outcome(db, "MISSING_PARAMS")
    ELSE IF ~ParseInt(req.click_id).ok THEN Outcome(db, "BAD_CLICK_ID")
    ELSE
      LET tg_id == ParseInt(req.click_id).val
          found == UserByTg(db, tg_id)
          user  == IF found = NoUser THEN NewUser(NextUserId(db.users), tg_id)
                   ELSE found
          db1   == PutUser(db, [user EXCEPT !.trader_id = req.trader_id,
                                           !.is_registered = TRUE])
          o1    == WithFlow(Committed(Outcome(db1, "OK")), e, tg_id, api)
      IN  send_postback_to_group(o1, e, "registration")

\* the VIP test recomputed at every deposit instead of latched: the variant
\* VipMonotone rules out
became_vip_recomputed(user, total_dep, vip_threshold) ==
    [user  |-> [user EXCEPT !.is_vip = (vip_threshold > 0 /\ total_dep >= vip_threshold)],
     became_vip |-> vip_threshold > 0 /\ total_dep >= vip_threshold /\ ~user.is_vip]

\* the VIP test of _handle_deposit_common: the row after it and became_vip
became_vip(user, total_dep, vip_threshold) ==
    IF vip_threshold > 0 /\ total_dep >= vip_threshold /\ ~user.is_vip
    THEN [user |-> [user EXCEPT !.is_vip = TRUE], became_vip |-> TRUE]
    ELSE [user |-> user, became_vip |-> FALSE]

\* _handle_deposit_common recording an event it has already recorded only
\* once: the variant DuplicateCounts rules out
_handle_deposit_common_once(db, e, req, api) ==
    IF ~check_secret(e, req) THEN Outcome(db, "403")
    ELSE IF Falsy(req.trader_id) \/ Falsy(req.click_id) \/ req.amount = Absent
    THEN Outcome(db, "MISSING_PARAMS")
    ELSE IF ~ParseInt(req.click_id).ok THEN Outcome(db, "BAD_CLICK_ID")
    ELSE IF ~ParseFloat(req.amount).ok THEN Outcome(db, "BAD_SUMDEP")
    ELSE
      LET tg_id  == ParseInt(req.click_id).val
          sumdep == ParseFloat(req.amount).val
          found  == UserByTg(db, tg_id)
      IN  IF found = NoUser \/ ParseFloat(req.amount).nan THEN Outcome(db, "500")
          ELSE
            LET user1 == IF found.trader_id = NoTrader
                         THEN [found EXCEPT !.trader_id = req.trader_id]
                         ELSE found
                dep   == [user_id |-> found.id, amount |-> sumdep]
                db1   == IF BagIn(dep, db.deposits) THEN db
                         ELSE [db EXCEPT !.deposits = @ (+) SetToBag({dep})]
                total_dep == _get_total_deposit(db1, found.id)
                vip_threshold == IF db.settings = {} THEN 0
                                 ELSE SettingsRow(db).vip_threshold_amount
                vip   == became_vip(user1, total_dep, vip_threshold)
                db2   == _get_settings(PutUser(db1, vip.user))
                o1    == WithFlow([Committed(Outcome(db2, "OK")) EXCEPT
                                     !.pb_total = <<total_dep>>,
                                     !.became_vip = vip.became_vip],
                                  e, tg_id, api)
                o2    == IF vip.became_vip
                         THEN WithNotice(o1, notify_vip_granted(o1.db, e, tg_id))
                         ELSE o1
            IN  send_postback_to_group(o2, e, "deposit")

\* _handle_deposit_common: /postback/first_deposit and /postback/redeposit.
\* The Deposit object takes user.id when it is built.  For a User added in
\* this session that id is still unset, and for a NaN amount SQLite binds
\* NULL: either way the INSERT breaks a NOT NULL constraint at the flush
\* that precedes the SUM query, the session rolls back and the request
\* ends as a server error.
_handle_deposit_common(db, e, req, api) ==
    IF ~check_secret(e, req) THEN Outcome(db, "403")
    ELSE IF Falsy(req.trader_id) \/ Falsy(req.click_id) \/ req.amount = Absent
    THEN Outcome(db, "MISSING_PARAMS")
    ELSE IF ~ParseInt(req.click_id).ok THEN Outcome(db, "BAD_CLICK_ID")
    ELSE IF ~ParseFloat(req.amount).ok THEN Outcome(db, "BAD_SUMDEP")
    ELSE
      LET tg_id  == ParseInt(req.click_id).val
          sumdep == ParseFloat(req.amount).val
          found  == UserByTg(db, tg_id)
      IN  IF found = NoUser \/ ParseFloat(req.amount).nan THEN Outcome(db, "500")
          ELSE
            LET user1 == IF found.trader_id = NoTrader
                         THEN [found EXCEPT !.trader_id = req.trader_id]
                         ELSE found
                dep   == [user_id |-> found.id, amount |-> sumdep]
                db1   == [db EXCEPT !.deposits = @ (+) SetToBag({dep})]
                total_dep == _get_total_deposit(db1, found.id)
                vip_threshold == IF db.settings = {} THEN 0
                                 ELSE SettingsRow(db).vip_threshold_amount
                vip   == became_vip(user1, total_dep, vip_threshold)
                db2   == _get_settings(PutUser(db1, vip.user))
                o1    == WithFlow([Committed(Outcome(db2, "OK")) EXCEPT
                                     !.pb_total = <<total_dep>>,
                                     !.became_vip = vip.became_vip],
                                  e, tg_id, api)
                o2    == IF vip.became_vip
                         THEN WithNotice(o1, notify_vip_granted(o1.db, e, tg_id))
                         ELSE o1
            IN  send_postback_to_group(o2, e, "deposit")

\* postback_withdraw running the engine like the other endpoints: the
\* variant WithdrawFrame rules out
postback_withdraw_with_flow(db, e, req) ==
    IF ~check_secret(e, req) THEN Outcome(db, "403")
    ELSE IF Falsy(req.trader_id) \/ Falsy(req.click_id) \/ req.amount = Absent
    THEN Outcome(db, "MISSING_PARAMS")
    ELSE IF ~ParseInt(req.click_id).ok THEN Outcome(db, "BAD_CLICK_ID")
    ELSE IF ~ParseFloat(req.amount).ok THEN Outcome(db, "BAD_WDR_SUM")
    ELSE send_postback_to_group(
             WithFlow(Outcome(db, "OK"), e, ParseInt(req.click_id).val, "error"),
             e, "withdraw")

\* /postback/withdraw
postback_withdraw(db, e, req) ==
    IF ~check_secret(e, req) THEN Outcome(db, "403")
    ELSE IF Falsy(req.trader_id) \/ Falsy(req.click_id) \/ req.amount = Absent
    THEN Outcome(db, "MISSING_PARAMS")
    ELSE IF ~ParseInt(req.click_id).ok THEN Outcome(db, "BAD_CLICK_ID")
    ELSE IF ~ParseFloat(req.amount).ok THEN Outcome(db, "BAD_WDR_SUM")
    ELSE send_postback_to_group(Outcome(db, "OK"), e, "withdraw")

\* /postback/{tail}: any other path under /postback is logged and answered
postback_catch_all(db, e, req) == Outcome(db, "OK (catch-all)")

\* ------------------------------------------------------------------------
\* Admin actions on a user and the channel subscription event
\* ------------------------------------------------------------------------

\* the amount of the admin's "give deposit": 1.0 when no amount is required
GiveDepFallback == 100

\* the admin's revoke clearing the wrong flag: the variant
\* ReentersFunnel rules out
revoke_access_wrong_flag(user) == [user EXCEPT !.is_vip = FALSE]

\* action revoke_access of admin_user_actions: the row it commits
revoke_access(user) == [user EXCEPT !.has_basic_access = FALSE]

\* admin_user_actions: admin:user:<id>:<action>
admin_user_actions(db, e, user_id, action, api) ==
    LET user == UserById(db, user_id)
        db0  == _get_settings(db)
    IN  IF user = NoUser THEN Outcome(db, "not_found")
        ELSE CASE action = "give_reg" ->
                    Unguarded(WithFlow(
                        Outcome(PutUser(db0, [user EXCEPT !.is_registered = TRUE]), "ok"),
                        e, user.telegram_id, api))
               [] action = "give_dep" ->
                    LET amount == IF SettingsRow(db0).deposit_required_amount <= 0
                                  THEN GiveDepFallback
                                  ELSE SettingsRow(db0).deposit_required_amount
                        dep == [user_id |-> user.id, amount |-> amount]
                    IN  Unguarded(WithFlow(
                            Outcome([db0 EXCEPT !.deposits = @ (+) SetToBag({dep})], "ok"),
                            e, user.telegram_id, api))
               [] action = "give_vip" ->
                    LET db1 == PutUser(db0, [user EXCEPT !.is_vip = TRUE])
                    IN  Unguarded(WithNotice(Outcome(db1, "ok"),
                            notify_vip_granted(db1, e, user.telegram_id)))
               [] action = "revoke_access" ->
                    LET db1 == PutUser(db0, revoke_access(user))
                    IN  Unguarded(WithNotice(Outcome(db1, "ok"),
                            notify_access_limited(db1, e, "basic_limited")))
               [] action = "revoke_vip" ->
                    LET db1 == PutUser(db0, [user EXCEPT !.is_vip = FALSE])
                    IN  Unguarded(WithNotice(Outcome(db1, "ok"),
                            notify_access_limited(db1, e, "vip_limited")))
               [] action = "delete" ->
                    Outcome([db0 EXCEPT !.users = @ \ {user}], "ok")

\* handle_channel_subscription following the member status both ways: the
\* variant SubscribedMonotone rules out
handle_channel_subscription_both_ways(db, e, ev, api) ==
    LET db0 == _get_settings(db)
        st  == SettingsRow(db0)
        is_member == ev.new_status \in {"member", "administrator", "creator"}
        user == UserByTg(db0, ev.tg)
        db1  == IF user = NoUser THEN db0
                ELSE PutUser(db0, [user EXCEPT !.is_subscribed = is_member])
    IN  IF ~st.require_subscription \/ st.channel_id = None THEN Outcome(db0, "ignored")
        ELSE IF ev.chat # st.channel_id THEN Outcome(db0, "ignored")
        ELSE IF ~is_member THEN Outcome(db1, "left")
        ELSE Unguarded(WithFlow(Outcome(db1, "ok"), e, ev.tg, api))

\* handle_channel_subscription taking an update of any chat for one of the
\* channel: the variant SubscriptionEvent rules out
handle_channel_subscription_any_chat(db, e, ev, api) ==
    LET db0 == _get_settings(db)
        st  == SettingsRow(db0)
        was_outside == ev.old_status \in {"left", "kicked"}
        is_member   == ev.new_status \in {"member", "administrator", "creator"}
        user == UserByTg(db0, ev.tg)
        db1  == IF user = NoUser THEN db0
                ELSE PutUser(db0, [user EXCEPT !.is_subscribed = TRUE])
    IN  IF ~st.require_subscription \/ st.channel_id = None THEN Outcome(db0, "ignored")
        ELSE IF ~(was_outside /\ is_member)
        THEN Outcome(db0, IF is_member THEN "ignored" ELSE "left")
        ELSE Unguarded(WithFlow(Outcome(db1, "ok"), e, ev.tg, api))

\* handle_channel_subscription: a chat_member update of Telegram.
\* ev.chat tells whether the update is for the configured channel.  The
\* answer "left" marks an update of the channel that reports a non-member.
handle_channel_subscription(db, e, ev, api) ==
    LET db0 == _get_settings(db)
        st  == SettingsRow(db0)
        was_outside == ev.old_status \in {"left", "kicked"}
        is_member   == ev.new_status \in {"member", "administrator", "creator"}
        user == UserByTg(db0, ev.tg)
        db1  == IF user = NoUser THEN db0
                ELSE PutUser(db0, [user EXCEPT !.is_subscribed = TRUE])
    IN  IF ~st.require_subscription \/ st.channel_id = None THEN Outcome(db0, "ignored")
        ELSE IF ev.chat # st.channel_id THEN Outcome(db0, "ignored")
        ELSE IF ~(was_outside /\ is_member)
        THEN Outcome(db0, IF is_member THEN "ignored" ELSE "left")
        ELSE Unguarded(WithFlow(Outcome(db1, "ok"), e, ev.tg, api))

\* ------------------------------------------------------------------------
\* Inputs
\* ------------------------------------------------------------------------

\* Telegram users that talk to the bot
TgIds == {1}

\* answers of getChatMember ("error": the call raises)
ApiAnswers == {"member", "left", "error"}

\* member statuses of a chat_member update
Statuses == {"left", "member"}

Channel == "channel"

T1 == <<"T", "1">>
T2 == <<"T", "2">>

\* request parameters that pass validation
GoodTraders == {T1}
GoodClicks  == {<<"1">>}
GoodAmounts == {<<"-", "5", "0">>, <<"1", "0", "0">>, <<"4", "0", "0">>}

\* request parameters that do not
BadTraders == {Absent, <<>>}
BadClicks  == {Absent, <<>>, <<"x">>, <<"1", ".", "5">>}
BadAmounts == {Absent, <<"x">>, <<"1", ",", "5", ".", "0">>, <<"n", "a", "n">>}

Requests(secrets, traders, clicks, amounts) ==
    [secret_q : secrets, secret_h : {None}, trader_id : traders,
     click_id : clicks, amount : amounts]

\* well-formed requests carrying the secret: registration reports no amount
GoodRequests == Requests({Secret}, GoodTraders, GoodClicks, GoodAmounts)
GoodRegistrations == Requests({Secret}, {T1, T2}, GoodClicks, {Absent})

\* deposits as the broker reports them: the well-formed requests, and one
\* under another trader id
GoodDeposits ==
    GoodRequests \cup Requests({Secret}, {T2}, GoodClicks, {<<"1", "0", "0">>})

AdminActions ==
    {"give_reg", "give_dep", "give_vip", "revoke_access", "revoke_vip", "delete"}

ChatMemberEvents ==
    [chat : {Channel, "other"}, old_status : Statuses, new_status : Statuses,
     tg : TgIds]

\* ------------------------------------------------------------------------
\* The happy-path scenario of the specification, followed step by step:
\* "start", then "created" (the account exists), "subscribed", "registered"
\* (by postback), "deposited" (deposit of 100 reported), "topped_up"
\* (deposit of 400 reported).  Any other operation leaves it ("off").
\* It also follows the admin's revoke of basic access: "revoked" right
\* after it, "reentered" when the next operation is an advance call.
\* ------------------------------------------------------------------------

HappySettings ==
    [ref_link |-> "ref", deposit_link |-> "dep",
     channel_id |-> Channel, channel_url |-> "url",
     require_subscription |-> TRUE, require_deposit |-> TRUE,
     deposit_required_amount |-> 10000, vip_threshold_amount |-> 50000,
     postbacks_chat_id |-> "ops",
     send_postbacks_registration |-> TRUE,
     send_postbacks_deposit |-> TRUE,
     send_postbacks_withdraw |-> TRUE]

DepositEvents == {"first_deposit", "redeposit"}

ScenarioStep(n, op, tg, req, o) ==
    IF op = "revoke_access" /\ tg = 1 /\ o.resp = "ok"
    THEN "revoked"
    ELSE IF n = "revoked" /\ op = "advance" /\ tg = 1
    THEN "reentered"
    ELSE IF n = "start" /\ op = "advance" /\ tg = 1 /\ o.api # "member"
    THEN "created"
    ELSE IF n = "created" /\ op \in {"chat_member", "advance"} /\ tg = 1
            /\ (o.resp = "ok" \/ o.api = "member")
    THEN "subscribed"
    ELSE IF n = "subscribed" /\ op = "registration" /\ tg = 1 /\ o.resp = "OK"
    THEN "registered"
    ELSE IF n = "registered" /\ op \in DepositEvents /\ tg = 1
            /\ o.resp = "OK" /\ req.amount = <<"1", "0", "0">>
    THEN "deposited"
    ELSE IF n = "deposited" /\ op \in DepositEvents /\ tg = 1
            /\ o.resp = "OK" /\ req.amount = <<"4", "0", "0">>
    THEN "topped_up"
    ELSE "off"

\* ------------------------------------------------------------------------
\* Operations.  Each one runs its handler to completion on the ledger and
\* records what the handler did in `last`.
\* ------------------------------------------------------------------------

NoRequest ==
    [secret_q |-> None, secret_h |-> None, trader_id |-> Absent,
     click_id |-> Absent, amount |-> Absent]

NoOp ==
    [op |-> "none", tg |-> 0, req |-> NoRequest, pre_user |-> NoUser,
     pre_users |-> {}, pre_deposits |-> EmptyBag, pre_settings |-> {},
     out |-> Outcome(None, "-")]

\* the handler's outcome becomes the new state; a handler that would add a
\* row to a full deposits table is not run
Commit(op, tg, req, o) ==
    /\ BagCardinality(o.db.deposits) <= MaxDeposits
    /\ users' = o.db.users
    /\ deposits' = o.db.deposits
    /\ settings' = o.db.settings
    /\ env' = env
    /\ tasks' = tasks
    /\ last' = [op |-> op, tg |-> tg, req |-> req,
                pre_user |-> UserByTg(Ledger, tg),
                pre_users |-> users,
                pre_deposits |-> deposits,
                pre_settings |-> settings,
                out |-> [o EXCEPT !.db = None]]
    /\ scn' = ScenarioStep(scn, op, tg, req, o)

\* the Telegram id a request names, 0 when its click id names none
ClickOf(req) ==
    IF ~Falsy(req.click_id) /\ ParseInt(req.click_id).ok
    THEN ParseInt(req.click_id).val ELSE 0

\* the handlers that run at the same time, and a handler that is not
\* between a lookup and a write
TaskIds == {"t1", "t2"}

Idle == [pc |-> "idle", kind |-> "none", tg |-> 0, found |-> NoUser,
         trader |-> NoTrader]

NoTasks == [t \in TaskIds |-> Idle]

\* advance: menu:get_signal, or any caller of run_access_flow_for_user
Advance(tg, api) ==
    Commit("advance", tg, NoRequest,
           Unguarded(WithFlow(Outcome(Ledger, "-"), env, tg, api)))

PostbackRegistration(req, api) ==
    Commit("registration", ClickOf(req), req,
           postback_registration(Ledger, env, req, api))

PostbackDeposit(event_name, req, api) ==
    Commit(event_name, ClickOf(req), req,
           _handle_deposit_common(Ledger, env, req, api))

PostbackWithdraw(req) ==
    Commit("withdraw", ClickOf(req), req, postback_withdraw(Ledger, env, req))

PostbackCatchAll(req) ==
    Commit("catch_all", ClickOf(req), req, postback_catch_all(Ledger, env, req))

AdminUserAction(user_id, action, api) ==
    /\ UserById(Ledger, user_id) # NoUser
    /\ Commit(action, UserById(Ledger, user_id).telegram_id, NoRequest,
              admin_user_actions(Ledger, env, user_id, action, api))

ChannelSubscription(ev, api) ==
    Commit("chat_member", ev.tg, NoRequest,
           handle_channel_subscription(Ledger, env, ev, api))

\* ------------------------------------------------------------------------
\* Spec: the bot and the receiver from an empty database
\* ------------------------------------------------------------------------

\* the settings table as the admin screens left it: no row yet, the
\* scenario's settings, and variants of them
SettingsProfiles ==
    {{},
     {HappySettings},
     {[HappySettings EXCEPT !.require_subscription = FALSE,
                            !.vip_threshold_amount = 10000]},
     {[HappySettings EXCEPT !.require_deposit = FALSE, !.ref_link = None,
                            !.vip_threshold_amount = 0]}}

\* the process environment: the mini-app URLs and the secret of .env, and
\* the chats Telegram refuses to deliver to (none here), and whether the
\* settings query of send_postback_to_group raises (it does not here)
FullEnv ==
    [basic_url |-> TRUE, vip_url |-> TRUE, secret |-> Secret, down |-> {},
     settings_fail |-> FALSE]

Init ==
    /\ users = {}
    /\ deposits = EmptyBag
    /\ settings \in SettingsProfiles
    /\ env = FullEnv
    /\ last = NoOp
    /\ scn = IF settings = {HappySettings} THEN "start" ELSE "off"
    /\ tasks = NoTasks

Next ==
    \/ \E tg \in TgIds, api \in ApiAnswers : Advance(tg, api)
    \/ \E req \in GoodRegistrations, api \in ApiAnswers :
          PostbackRegistration(req, api)
    \/ \E ev \in DepositEvents, req \in GoodDeposits,
          api \in ApiAnswers : PostbackDeposit(ev, req, api)
    \/ \E req \in GoodRequests : PostbackWithdraw(req)
    \/ \E u \in users, a \in AdminActions, api \in ApiAnswers :
          AdminUserAction(u.id, a, api)
    \/ \E ev \in ChatMemberEvents, api \in ApiAnswers : ChannelSubscription(ev, api)

Spec == Init /\ [][Next]_vars

\* ------------------------------------------------------------------------
\* SpecFlow: the engine alone, called again and again on a ledger drawn
\* from the ledgers the bot can be in, under every settings row
\* ------------------------------------------------------------------------

\* thresholds an admin has typed in, in cents
Thresholds == {0, 10000, 50000}

\* every settings row the admin screens can produce (the operations chat
\* is set and the forwarding switches are on)
SettingsChoices ==
    [ref_link : {None, "ref"}, deposit_link : {None, "dep"},
     channel_id : {None, Channel}, channel_url : {"url"},
     require_subscription : BOOLEAN, require_deposit : BOOLEAN,
     deposit_required_amount : Thresholds, vip_threshold_amount : Thresholds,
     postbacks_chat_id : {"ops"},
     send_postbacks_registration : {TRUE},
     send_postbacks_deposit : {TRUE},
     send_postbacks_withdraw : {TRUE}]

\* Access is granted only past the registration step, and neither
\* is_registered nor trader_id is ever cleared
GrantedImpliesRegistered ==
    \A u \in users :
        u.has_basic_access => (u.is_registered \/ u.trader_id # NoTrader)

\* rows of user 1 the bot can hold
UserChoices ==
    {u \in [id : {1}, telegram_id : {1}, language : {None},
            is_subscribed : BOOLEAN, is_registered : BOOLEAN,
            has_basic_access : BOOLEAN, is_vip : BOOLEAN,
            trader_id : {NoTrader, T1}] :
        u.has_basic_access => (u.is_registered \/ u.trader_id # NoTrader)}

\* amounts of the deposit rows of the drawn ledgers, in cents
AmountChoices == {-5000, 10000, 40000}

RECURSIVE SumCounts(_, _)
SumCounts(f, S) ==
    IF S = {} THEN 0
    ELSE LET x == CHOOSE y \in S : TRUE IN f[x] + SumCounts(f, S \ {x})

\* the bags of at most n rows taken from `rows`
BagsOver(rows, n) ==
    {[r \in {x \in rows : f[x] > 0} |-> f[r]] :
        f \in {g \in [rows -> 0..n] : SumCounts(g, rows) <= n}}

DepositChoices ==
    BagsOver([user_id : {1}, amount : AmountChoices], MaxDeposits)

EnvChoices ==
    {FullEnv, [FullEnv EXCEPT !.basic_url = FALSE, !.vip_url = FALSE]}

InitFlow ==
    /\ users \in {{}} \cup {{u} : u \in UserChoices}
    /\ deposits \in DepositChoices
    /\ settings \in {{}} \cup {{st} : st \in SettingsChoices}
    /\ env \in EnvChoices
    /\ last = NoOp
    /\ scn = "off"
    /\ tasks = NoTasks

NextFlow == \E tg \in TgIds, api \in ApiAnswers : Advance(tg, api)

SpecFlow == InitFlow /\ [][NextFlow]_vars

\* ------------------------------------------------------------------------
\* SpecPostback: the receiver alone, fed every request of the boundary,
\* well-formed or not, with and without the secret
\* ------------------------------------------------------------------------

\* the well-formed requests, and those with the secret wrong or with one
\* parameter, or all of them, malformed
AnyRequests ==
    GoodRequests
    \cup Requests({"wrong"}, GoodTraders, GoodClicks, {<<"1", "0", "0">>})
    \cup Requests({Secret}, BadTraders, GoodClicks, {<<"1", "0", "0">>})
    \cup Requests({Secret}, GoodTraders, BadClicks, {<<"1", "0", "0">>})
    \cup Requests({Secret}, GoodTraders, GoodClicks, BadAmounts)
    \cup Requests({Secret}, {Absent}, {<<"x">>}, {<<"x">>})
    \cup [secret_q : {None}, secret_h : {None, "wrong", Secret},
          trader_id : GoodTraders, click_id : GoodClicks,
          amount : {<<"1", "0", "0">>}]

\* BROKER_POSTBACK_SECRET is set, or it is not
SecretChoices == {FullEnv, [FullEnv EXCEPT !.secret = None]}

InitPostback ==
    /\ users = {}
    /\ deposits = EmptyBag
    /\ settings \in SettingsProfiles
    /\ env \in SecretChoices
    /\ last = NoOp
    /\ scn = "off"
    /\ tasks = NoTasks

NextPostback ==
    \/ \E req \in AnyRequests, api \in ApiAnswers : PostbackRegistration(req, api)
    \/ \E ev \in DepositEvents, req \in AnyRequests, api \in ApiAnswers :
          PostbackDeposit(ev, req, api)
    \/ \E req \in AnyRequests : PostbackWithdraw(req)
    \/ \E req \in AnyRequests : PostbackCatchAll(req)

SpecPostback == InitPostback /\ [][NextPostback]_vars

\* ------------------------------------------------------------------------
\* SpecNotify: the notification operations alone, called for an identity
\* on a ledger drawn from the ledgers the bot can be in, the one without
\* an account for that identity included
\* ------------------------------------------------------------------------

NotifyVipGranted(tg) ==
    LET n == notify_vip_granted(Ledger, env, tg)
    IN  Commit("notify_vip_granted", tg, NoRequest,
               Unguarded(WithNotice(Outcome(Ledger, "-"), n)))

NotifyBasicAccessLimited(tg) ==
    LET n == notify_access_limited(Ledger, env, "basic_limited")
    IN  Commit("notify_basic_access_limited", tg, NoRequest,
               Unguarded(WithNotice(Outcome(Ledger, "-"), n)))

NotifyVipAccessLimited(tg) ==
    LET n == notify_access_limited(Ledger, env, "vip_limited")
    IN  Commit("notify_vip_access_limited", tg, NoRequest,
               Unguarded(WithNotice(Outcome(Ledger, "-"), n)))

NextNotify ==
    \/ \E tg \in TgIds : NotifyVipGranted(tg)
    \/ \E tg \in TgIds : NotifyBasicAccessLimited(tg)
    \/ \E tg \in TgIds : NotifyVipAccessLimited(tg)

SpecNotify == InitFlow /\ [][NextNotify]_vars

\* ------------------------------------------------------------------------
\* SpecRace: handlers interleaved at their yield points.  Every await on
\* the session is one: between the SELECT by telegram_id and the commit of
\* the INSERT or UPDATE other handlers run.  The handlers that insert into
\* users are postback_registration, _get_or_create_user and
\* handle_set_language (the deposit handler's insert of a new user never
\* commits).
\* ------------------------------------------------------------------------

\* users.telegram_id is UNIQUE: without the constraint no INSERT is refused
UniqueViolation_none(us, tg) == FALSE

\* users.telegram_id is UNIQUE: the INSERT of a row for tg is refused
\* (IntegrityError) when a row for tg exists
UniqueViolation(us, tg) == \E u \in us : u.telegram_id = tg

RaceTgIds == {1, 2}

RaceTraders == {T1, T2}

\* select(User).where(User.telegram_id == tg_id): the handler keeps the
\* row it found, or None
Lookup(t, kind, tg, trader) ==
    /\ tasks[t].pc = "idle"
    /\ tasks' = [tasks EXCEPT ![t] =
           [pc |-> "looked", kind |-> kind, tg |-> tg,
            found |-> UserByTg(Ledger, tg), trader |-> trader]]
    /\ UNCHANGED <<users, deposits, settings, env, last, scn>>

\* the language the user picks in handle_set_language
Lang == "en"

\* a row that is added as subscribed: the variant CreatedBlank rules out
RowToInsert_subscribed(task) ==
    IF task.kind = "registration"
    THEN [NewUser(NextUserId(users), task.tg) EXCEPT
             !.trader_id = task.trader, !.is_registered = TRUE]
    ELSE IF task.kind = "set_lang"
    THEN [NewUser(NextUserId(users), task.tg) EXCEPT !.language = Lang]
    ELSE [NewUser(NextUserId(users), task.tg) EXCEPT !.is_subscribed = TRUE]

\* the row the handler adds when it found none
RowToInsert(task) ==
    IF task.kind = "registration"
    THEN [NewUser(NextUserId(users), task.tg) EXCEPT
             !.trader_id = task.trader, !.is_registered = TRUE]
    ELSE IF task.kind = "set_lang"
    THEN [NewUser(NextUserId(users), task.tg) EXCEPT !.language = Lang]
    ELSE NewUser(NextUserId(users), task.tg)

\* session.add(user); session.commit() accepted
Insert(t) ==
    /\ tasks[t].pc = "looked" /\ tasks[t].found = NoUser
    /\ ~UniqueViolation(users, tasks[t].tg)
    /\ users' = users \cup {RowToInsert(tasks[t])}
    /\ tasks' = [tasks EXCEPT ![t] = Idle]
    /\ UNCHANGED <<deposits, settings, env, last, scn>>

\* session.commit() raises IntegrityError: the handler ends, nothing written
InsertRefused(t) ==
    /\ tasks[t].pc = "looked" /\ tasks[t].found = NoUser
    /\ UniqueViolation(users, tasks[t].tg)
    /\ tasks' = [tasks EXCEPT ![t].pc = "failed"]
    /\ UNCHANGED <<users, deposits, settings, env, last, scn>>

\* the row was found: postback_registration updates its two columns,
\* handle_set_language the language, _get_or_create_user writes nothing
Update(t) ==
    /\ tasks[t].pc = "looked" /\ tasks[t].found # NoUser
    /\ users' = IF tasks[t].kind = "registration"
                THEN {IF u.id = tasks[t].found.id
                      THEN [u EXCEPT !.trader_id = tasks[t].trader,
                                     !.is_registered = TRUE]
                      ELSE u : u \in users}
                ELSE IF tasks[t].kind = "set_lang"
                THEN {IF u.id = tasks[t].found.id
                      THEN [u EXCEPT !.language = Lang]
                      ELSE u : u \in users}
                ELSE users
    /\ tasks' = [tasks EXCEPT ![t] = Idle]
    /\ UNCHANGED <<deposits, settings, env, last, scn>>

\* the failed request is over; the sender may retry
Retry(t) ==
    /\ tasks[t].pc = "failed"
    /\ tasks' = [tasks EXCEPT ![t] = Idle]
    /\ UNCHANGED <<users, deposits, settings, env, last, scn>>

InitRace ==
    /\ users = {}
    /\ deposits = EmptyBag
    /\ settings = {}
    /\ env = FullEnv
    /\ last = NoOp
    /\ scn = "off"
    /\ tasks = NoTasks

NextRace ==
    \/ \E t \in TaskIds, kind \in {"registration", "advance", "set_lang"},
          tg \in RaceTgIds, trader \in RaceTraders :
          Lookup(t, kind, tg, IF kind = "registration" THEN trader ELSE NoTrader)
    \/ \E t \in TaskIds : Insert(t)
    \/ \E t \in TaskIds : InsertRefused(t)
    \/ \E t \in TaskIds : Update(t)
    \/ \E t \in TaskIds : Retry(t)

SpecRace == InitRace /\ [][NextRace]_vars

\* ------------------------------------------------------------------------
\* SpecDelivery: the bot and the receiver while Telegram refuses to deliver
\* to some chats: bot.send_message / bot.send_photo to such a chat raises
\* ------------------------------------------------------------------------

\* the chats the bot writes to: the user's and the operations chat
Chats == {"user", "ops"}

DeliveryChoices == {[FullEnv EXCEPT !.down = d] : d \in SUBSET Chats}

InitDelivery ==
    /\ users = {}
    /\ deposits = EmptyBag
    /\ settings \in SettingsProfiles
    /\ env \in DeliveryChoices
    /\ last = NoOp
    /\ scn = "off"
    /\ tasks = NoTasks

NextDelivery ==
    \/ \E tg \in TgIds, api \in ApiAnswers : Advance(tg, api)
    \/ \E req \in GoodRegistrations, api \in ApiAnswers :
          PostbackRegistration(req, api)
    \/ \E ev \in DepositEvents, req \in GoodDeposits,
          api \in ApiAnswers : PostbackDeposit(ev, req, api)
    \/ \E u \in users, a \in AdminActions, api \in ApiAnswers :
          AdminUserAction(u.id, a, api)

SpecDelivery == InitDelivery /\ [][NextDelivery]_vars

\* ------------------------------------------------------------------------
\* SpecSteps: _run_flow taken one await at a time.  The engine holds its
\* User and Settings objects from its first reads to its end; every later
\* session works on the ledger as it is when the step runs.  Between two
\* steps the postback receiver and the admin handlers run.
\* ------------------------------------------------------------------------

\* the engine invocations in flight
FlowTasks == {"f1"}

\* what an invocation keeps between two steps: where it is, whose flow it
\* runs, and its context (the ledger is not kept: it is read again)
Parked(pc, tg, c) == [pc |-> pc, tg |-> tg, c |-> [c EXCEPT !.db = None]]

IdleFlow ==
    Parked("idle", 0,
           FlowStart([users |-> {}, deposits |-> EmptyBag,
                      settings |-> {DefaultSettings}], NoUser))

\* the invocation goes on to its next step, or it has sent its message and
\* returns: the step's writes are in the ledger either way.  `last` is the
\* operation that ended with this step, if one did.
FlowStep(t, tg, next, c) ==
    /\ users' = c.db.users
    /\ deposits' = c.db.deposits
    /\ settings' = c.db.settings
    /\ env' = env
    /\ scn' = scn
    /\ IF c.stop
       THEN /\ tasks' = [tasks EXCEPT ![t] = IdleFlow]
            /\ last' = [op |-> "advance", tg |-> tg, req |-> NoRequest,
                        pre_user |-> UserByTg(Ledger, tg),
                        pre_users |-> users, pre_deposits |-> deposits,
                        pre_settings |-> settings,
                        out |-> [Outcome(None, "-") EXCEPT
                                    !.msgs = c.msgs, !.flows = 1,
                                    !.flow_total = c.totals,
                                    !.granted = c.granted, !.api = c.api,
                                    !.trace = <<"advance">>,
                                    !.errors = IF c.raised THEN <<"advance">>
                                               ELSE <<>>,
                                    !.raised = c.raised]]
       ELSE /\ tasks' = [tasks EXCEPT ![t] = Parked(next, tg, c)]
            /\ last' = NoOp

\* the ledger of now under the objects the invocation holds
Resumed(t) == [tasks[t].c EXCEPT !.db = Ledger]

\* _get_or_create_user, _get_settings and the fallback for an account
\* that has access
StepBegin(t, tg) ==
    /\ tasks[t].pc = "idle"
    /\ LET c0 == FlowBegin(Ledger, env, tg)
           c  == IF HasAccess(c0.user) THEN Say(c0, _open_miniapp(env, c0.user))
                 ELSE c0
       IN  FlowStep(t, tg, "subscription", c)

StepSubscription(t, api) ==
    /\ tasks[t].pc = "subscription"
    /\ FlowStep(t, tasks[t].tg, "registration", FlowSubscription(Resumed(t), api))

StepRegistration(t) ==
    /\ tasks[t].pc = "registration"
    /\ FlowStep(t, tasks[t].tg, "deposit", FlowRegistration(Resumed(t)))

StepDeposit(t) ==
    /\ tasks[t].pc = "deposit"
    /\ FlowStep(t, tasks[t].tg, "grant", FlowDeposit(Resumed(t)))

StepGrant(t) ==
    /\ tasks[t].pc = "grant"
    /\ FlowStep(t, tasks[t].tg, "idle", FlowGrant(Resumed(t)))

InitSteps ==
    /\ users = {}
    /\ deposits = EmptyBag
    /\ settings \in SettingsProfiles
    /\ env = FullEnv
    /\ last = NoOp
    /\ scn = "off"
    /\ tasks = [t \in FlowTasks |-> IdleFlow]

\* what runs between the steps: the postbacks of one trader (a deposit of
\* 100) and the admin's actions, their own engine runs finding the user
\* in the channel or not
StepApis == {"member", "left"}
StepRegistrations == Requests({Secret}, {T1}, GoodClicks, {Absent})
StepDeposits == Requests({Secret}, {T1}, GoodClicks, {<<"1", "0", "0">>})

NextSteps ==
    \/ \E t \in FlowTasks, tg \in TgIds : StepBegin(t, tg)
    \/ \E t \in FlowTasks, api \in StepApis : StepSubscription(t, api)
    \/ \E t \in FlowTasks : StepRegistration(t)
    \/ \E t \in FlowTasks : StepDeposit(t)
    \/ \E t \in FlowTasks : StepGrant(t)
    \/ \E req \in StepRegistrations, api \in StepApis :
          PostbackRegistration(req, api)
    \/ \E req \in StepDeposits, api \in StepApis :
          PostbackDeposit("first_deposit", req, api)
    \/ \E u \in users, a \in AdminActions, api \in StepApis :
          AdminUserAction(u.id, a, api)

SpecSteps == InitSteps /\ [][NextSteps]_vars

\* ------------------------------------------------------------------------
\* SpecFrame: the engine of user 1 step by step, with a second user: the
\* registration postbacks of both, the deposits of user 1 and the admin's
\* actions run between its steps
\* ------------------------------------------------------------------------

FrameRegistrations ==
    Requests({Secret}, {T1}, {<<"1">>, <<"2">>}, {Absent})

InitFrame ==
    /\ users = {}
    /\ deposits = EmptyBag
    /\ settings \in {{HappySettings},
                      {[HappySettings EXCEPT !.require_deposit = FALSE]}}
    /\ env = FullEnv
    /\ last = NoOp
    /\ scn = "off"
    /\ tasks = [t \in FlowTasks |-> IdleFlow]

\* an operation that would give an account an id above MaxUserId is not
\* run
IdsBounded == \A u \in users' : u.id <= MaxUserId

NextFrame ==
    \/ \E t \in FlowTasks : StepBegin(t, 1) /\ IdsBounded
    \/ \E t \in FlowTasks, api \in StepApis : StepSubscription(t, api)
    \/ \E t \in FlowTasks : StepRegistration(t)
    \/ \E t \in FlowTasks : StepDeposit(t)
    \/ \E t \in FlowTasks : StepGrant(t)
    \/ \E req \in FrameRegistrations, api \in StepApis :
          PostbackRegistration(req, api) /\ IdsBounded
    \/ \E req \in StepDeposits, api \in StepApis :
          PostbackDeposit("first_deposit", req, api)
    \/ \E u \in users : AdminUserAction(u.id, "delete", "left")

SpecFrame == InitFrame /\ [][NextFrame]_vars

\* ------------------------------------------------------------------------
\* SpecForward: the receiver under every setting of the operations chat
\* and of the three forwarding switches, the settings query of
\* send_postback_to_group answering or raising
\* ------------------------------------------------------------------------

ForwardSettings ==
    {[HappySettings EXCEPT !.postbacks_chat_id = chat,
                           !.send_postbacks_registration = r,
                           !.send_postbacks_deposit = d,
                           !.send_postbacks_withdraw = w] :
        chat \in {None, "ops"}, r \in BOOLEAN, d \in BOOLEAN, w \in BOOLEAN}

ForwardEnvs == {[FullEnv EXCEPT !.settings_fail = f] : f \in BOOLEAN}

InitForward ==
    /\ users = {}
    /\ deposits = EmptyBag
    /\ settings \in {{}} \cup {{st} : st \in ForwardSettings}
    /\ env \in ForwardEnvs
    /\ last = NoOp
    /\ scn = "off"
    /\ tasks = NoTasks

NextForward ==
    \/ \E req \in StepRegistrations, api \in StepApis :
          PostbackRegistration(req, api)
    \/ \E req \in StepDeposits, api \in StepApis :
          PostbackDeposit("first_deposit", req, api)
    \/ \E req \in GoodRequests : PostbackWithdraw(req)

SpecForward == InitForward /\ [][NextForward]_vars

\* ------------------------------------------------------------------------
\* SpecDeposits: deposit postbacks for one account, first one after the
\* other and then two at the same time, interleaved at the awaits of
\* _handle_deposit_common.  The database is the SQLite file of the default
\* DATABASE_URL: the SELECT of the user runs outside a transaction, the
\* flush of the INSERT opens the write transaction and takes the
\* database's single write lock, which the handler holds until its commit;
\* a second handler's INSERT waits for the lock.  Rows of an open
\* transaction are seen by that transaction alone.
\* ------------------------------------------------------------------------

\* the amount a deposit request reports, in cents
SumdepOf(req) == ParseFloat(req.amount).val

DepositTasks == {"d1", "d2"}

IdleDeposit ==
    [pc |-> "idle", event |-> "none", req |-> NoRequest, found |-> NoUser,
     raced |-> FALSE, total |-> 0, became_vip |-> FALSE, resp |-> "-"]

\* a deposit handler is between its first await and its return
InFlight(t) == tasks[t].pc \in {"looked", "flushed", "committed"}

\* the Deposit row the handler builds from the user it found
RowOf(task) == [user_id |-> task.found.id, amount |-> SumdepOf(task.req)]

\* an INSERT that replaces an equal row instead of adding one: the variant
\* BothInsertsKept rules out
InsertRow_keyed(bag, row) ==
    IF BagIn(row, bag) THEN bag ELSE bag (+) SetToBag({row})

\* session.add(dep) and the INSERT of the flush
InsertRow(bag, row) == bag (+) SetToBag({row})

\* no write lock: every handler flushes at once and sees the committed
\* rows and its own.  The variant VipAfterDeposits rules out
WriteLocked_never(t) == FALSE

\* another handler holds the write lock of the database
WriteLocked(t) == \E o \in DepositTasks \ {t} : tasks[o].pc = "flushed"

\* select(User).where(User.telegram_id == tg_id); the deposits table as it
\* is when the first of the handlers starts is kept in `last`
DepositLookup(t, event_name, req) ==
    /\ tasks[t].pc = "idle"
    /\ tasks' = [tasks EXCEPT ![t] =
           [IdleDeposit EXCEPT !.pc = "looked", !.event = event_name,
                               !.req = req,
                               !.found = UserByTg(Ledger, ClickOf(req)),
                               !.raced = \E o \in DepositTasks : InFlight(o)]]
    /\ last' = IF \A o \in DepositTasks : tasks[o].pc = "idle"
               THEN [NoOp EXCEPT !.op = "deposits", !.tg = ClickOf(req),
                                 !.pre_user = UserByTg(Ledger, ClickOf(req)),
                                 !.pre_users = users,
                                 !.pre_deposits = deposits,
                                 !.pre_settings = settings]
               ELSE last
    /\ UNCHANGED <<users, deposits, settings, env, scn>>

\* session.add(dep) and the SUM query, which flushes first.  For a user
\* added in this session the INSERT breaks NOT NULL and the request ends
\* as a server error; otherwise the INSERT waits for the write lock and
\* the SUM sees the committed rows and the new one
DepositFlush(t) ==
    /\ tasks[t].pc = "looked"
    /\ IF tasks[t].found = NoUser
       THEN tasks' = [tasks EXCEPT ![t].pc = "done", ![t].resp = "500"]
       ELSE /\ ~WriteLocked(t)
            /\ tasks' = [tasks EXCEPT
                   ![t].pc = "flushed",
                   ![t].total = _get_total_deposit(
                        [Ledger EXCEPT !.deposits = InsertRow(@, RowOf(tasks[t]))],
                        tasks[t].found.id)]
    /\ UNCHANGED <<users, deposits, settings, env, last, scn>>

\* session.get(Settings, 1), the VIP test on the user as it was found,
\* and session.commit(): the INSERT, and an UPDATE of the columns the
\* handler changed
DepositCommit(t) ==
    /\ tasks[t].pc = "flushed"
    /\ LET task  == tasks[t]
           user1 == IF task.found.trader_id = NoTrader
                    THEN [task.found EXCEPT !.trader_id = task.req.trader_id]
                    ELSE task.found
           vip_threshold == IF settings = {} THEN 0
                            ELSE SettingsRow(Ledger).vip_threshold_amount
           vip   == became_vip(user1, task.total, vip_threshold)
       IN  /\ users' = {IF u.id # task.found.id THEN u
                        ELSE [u EXCEPT
                                !.trader_id = IF task.found.trader_id = NoTrader
                                              THEN task.req.trader_id ELSE @,
                                !.is_vip = IF vip.became_vip THEN TRUE ELSE @]
                        : u \in users}
           /\ deposits' = InsertRow(deposits, RowOf(task))
           /\ settings' = _get_settings(Ledger).settings
           /\ tasks' = [tasks EXCEPT ![t].pc = "committed",
                                     ![t].became_vip = vip.became_vip]
    /\ UNCHANGED <<env, last, scn>>

\* after the commit: run_access_flow_for_user, notify_vip_granted when the
\* account became VIP, send_postback_to_group, and the response
DepositRest(t, api) ==
    /\ tasks[t].pc = "committed"
    /\ \E o1 \in {WithFlow(Committed(Outcome(Ledger, "OK")), env,
                            ClickOf(tasks[t].req), api)} :
       \E o2 \in {IF tasks[t].became_vip
                  THEN WithNotice(o1, notify_vip_granted(
                                          o1.db, env, ClickOf(tasks[t].req)))
                  ELSE o1} :
       \E o3 \in {send_postback_to_group(o2, env, "deposit")} :
           /\ users' = o3.db.users
           /\ deposits' = o3.db.deposits
           /\ settings' = o3.db.settings
           /\ tasks' = [tasks EXCEPT ![t].pc = "done", ![t].resp = o3.resp]
    /\ UNCHANGED <<env, last, scn>>

\* no deposit handler has started
Quiet == \A t \in DepositTasks : tasks[t].pc = "idle"

RaceDeposits ==
    Requests({Secret}, {T1}, GoodClicks, {<<"1", "0", "0">>, <<"4", "0", "0">>})

RaceSettings ==
    {{}, {HappySettings},
     {[HappySettings EXCEPT !.require_subscription = FALSE]}}

InitDeposits ==
    /\ users = {}
    /\ deposits = EmptyBag
    /\ settings \in RaceSettings
    /\ env = FullEnv
    /\ last = NoOp
    /\ scn = "off"
    /\ tasks = [t \in DepositTasks |-> IdleDeposit]

NextDeposits ==
    \/ \E api \in StepApis : Quiet /\ Advance(1, api)
    \/ \E req \in StepRegistrations, api \in StepApis :
          Quiet /\ PostbackRegistration(req, api)
    \/ \E req \in RaceDeposits, api \in StepApis :
          Quiet /\ PostbackDeposit("first_deposit", req, api)
    \/ \E t \in DepositTasks, req \in RaceDeposits :
          DepositLookup(t, "redeposit", req)
    \/ \E t \in DepositTasks : DepositFlush(t)
    \/ \E t \in DepositTasks : DepositCommit(t)
    \/ \E t \in DepositTasks, api \in StepApis : DepositRest(t, api)

SpecDeposits == InitDeposits /\ [][NextDeposits]_vars

\* ------------------------------------------------------------------------
\* SpecSubscription: chat-member updates with every member status, for the
\* channel and for another chat, under settings that require the
\* subscription or not and have the channel set or not
\* ------------------------------------------------------------------------

MemberStatuses ==
    {"left", "kicked", "restricted", "member", "administrator", "creator"}

SubscriptionEvents ==
    [chat : {Channel, "other"}, old_status : MemberStatuses,
     new_status : MemberStatuses, tg : TgIds]

SubscriptionSettings ==
    {{}, {HappySettings},
     {[HappySettings EXCEPT !.require_subscription = FALSE]},
     {[HappySettings EXCEPT !.channel_id = None]}}

InitSubscription ==
    /\ users = {}
    /\ deposits = EmptyBag
    /\ settings \in SubscriptionSettings
    /\ env = FullEnv
    /\ last = NoOp
    /\ scn = "off"
    /\ tasks = NoTasks

NextSubscription ==
    \/ \E ev \in SubscriptionEvents, api \in ApiAnswers :
          ChannelSubscription(ev, api)
    \/ \E api \in StepApis : Advance(1, api)
    \/ \E req \in StepRegistrations, api \in StepApis :
          PostbackRegistration(req, api)
    \/ \E u \in users, a \in AdminActions \ {"give_dep"} :
          AdminUserAction(u.id, a, "left")

SpecSubscription == InitSubscription /\ [][NextSubscription]_vars

\* ------------------------------------------------------------------------
\* Properties
\* ------------------------------------------------------------------------

\* the account the last operation was about, as it is now
Account == UserByTg(Ledger, last.tg)

\* the kinds of the messages the last operation sent to the user
Kinds == {last.out.msgs[i].kind : i \in 1..Len(last.out.msgs)}

\* how many messages of the last operation told the user about VIP: the
\* VIP part of the access-granted message and the "became VIP" message
VipNotices ==
    Cardinality({i \in 1..Len(last.out.msgs) :
        \/ last.out.msgs[i].kind = "vip_granted"
        \/ last.out.msgs[i].kind = "access_granted" /\ last.out.msgs[i].vip})

\* the sum of the rows the account owns now
OwnedTotal ==
    SumRows(deposits, {r \in BagToSet(deposits) : r.user_id = Account.id})

\* C1: for an account with basic access, under every settings row, each of
\* any number of consecutive advance calls leaves its five flags and its
\* trader reference as they were, writes no deposit row, and takes the
\* short-circuit path: the one message is the mini-app (or the warning that
\* its URL is not set), never a step prompt, and the grant step is not run.
IdempotentGrant ==
    (last.op = "advance" /\ last.pre_user.has_basic_access) =>
        /\ Account = last.pre_user
        /\ users = last.pre_users
        /\ deposits = last.pre_deposits
        /\ Len(last.out.msgs) = 1
        /\ Kinds \subseteq {"miniapp", "miniapp_url_missing"}
        /\ Kinds \cap StepPrompts = {}
        /\ ~last.out.granted

\* an advance call on an account that holds basic access but is neither
\* subscribed nor VIP, with the subscription step on
IdempotentGrantSeen ==
    /\ last.op = "advance"
    /\ last.pre_user.has_basic_access
    /\ ~last.pre_user.is_subscribed /\ ~last.pre_user.is_vip
    /\ \E st \in settings : st.require_subscription /\ st.channel_id # None
    /\ Kinds = {"miniapp"}

\* C2: under every settings row and with every deposit total, an advance
\* call on an account that is not registered and has no trader reference
\* does not reach the grant step: basic access is not set and no
\* access-granted message is sent.
RegistrationUnconditional ==
    (/\ last.op = "advance"
     /\ ~last.pre_user.is_registered
     /\ last.pre_user.trader_id = NoTrader) =>
        /\ ~last.out.granted
        /\ ~Account.has_basic_access
        /\ "access_granted" \notin Kinds

\* an advance call on an unregistered account with both switches off and
\* deposits on record: the registration prompt is what it gets
RegistrationUnconditionalSeen ==
    /\ last.op = "advance"
    /\ last.pre_user # NoUser
    /\ ~last.pre_user.is_registered /\ last.pre_user.trader_id = NoTrader
    /\ \E st \in settings : ~st.require_subscription /\ ~st.require_deposit
    /\ OwnedTotal >= 50000
    /\ Kinds = {"registration"}

\* the deposit step is satisfied for the account under settings row st
DepositMet(st) ==
    \/ ~st.require_deposit
    \/ st.deposit_required_amount > 0 /\ OwnedTotal >= st.deposit_required_amount

\* C3: with the subscription step on, an advance call on an account without
\* access that is not subscribed (and whose membership the live check does
\* not confirm), not registered and short of the required deposit sends the
\* subscription prompt and nothing else, whatever the settings of the later
\* steps.
SubscriptionFirst ==
    (/\ last.op = "advance"
     /\ ~last.pre_user.has_basic_access /\ ~last.pre_user.is_vip
     /\ ~last.pre_user.is_subscribed
     /\ ~last.pre_user.is_registered
     /\ \E st \in settings : st.require_subscription /\ ~DepositMet(st)
     /\ last.out.api # "member") =>
        Kinds = {"subscription"}

\* C9: when ref_link is unset and an advance call reaches the registration
\* step (no access yet, subscription step off or passed) for an account
\* that is not registered and has no trader reference, the one message is
\* the configuration error, not the registration prompt, and the account
\* stays unregistered, without basic access and without VIP.
MisconfiguredRegistration ==
    (/\ last.op = "advance"
     /\ ~last.pre_user.has_basic_access /\ ~last.pre_user.is_vip
     /\ ~last.pre_user.is_registered /\ last.pre_user.trader_id = NoTrader
     /\ \E st \in settings :
           /\ st.ref_link = None
           /\ ~st.require_subscription \/ Account.is_subscribed) =>
        /\ last.out.msgs = <<Msg("config_error")>>
        /\ ~last.out.granted
        /\ ~Account.is_registered /\ Account.trader_id = NoTrader
        /\ ~Account.has_basic_access /\ ~Account.is_vip

\* an advance call that passed the subscription step by the live check and
\* stopped at the registration step for want of ref_link, with the deposit
\* step satisfied
MisconfiguredRegistrationSeen ==
    /\ last.op = "advance"
    /\ last.pre_user # NoUser /\ ~last.pre_user.is_subscribed
    /\ ~last.pre_user.is_registered /\ last.pre_user.trader_id = NoTrader
    /\ \E st \in settings :
          /\ st.ref_link = None /\ st.require_subscription
          /\ st.channel_id # None /\ DepositMet(st)
    /\ last.out.api = "member"
    /\ Account.is_subscribed
    /\ Kinds = {"config_error"}

\* the operations claim C4 speaks of
FunnelOps == {"advance", "registration", "withdraw"} \cup DepositEvents

\* C4: once an account has VIP, no deposit postback (whatever the amount),
\* registration postback, withdraw postback or advance call takes it away.
VipMonotone ==
    [][\A u \in users :
          (u.is_vip /\ last'.op \in FunnelOps) =>
              \E v \in users' : v.id = u.id /\ v.is_vip]_vars

\* a deposit was reported for a VIP account whose total is below the VIP
\* threshold, and the account is still VIP
VipMonotoneSeen ==
    /\ last.op \in DepositEvents /\ last.out.resp = "OK"
    /\ last.pre_user.is_vip
    /\ \E st \in settings :
          st.vip_threshold_amount > 0 /\ OwnedTotal < st.vip_threshold_amount
    /\ Account.is_vip

\* C5: whenever the engine has run for an account that is subscribed (or
\* the subscription step is off), is registered or has a trader reference,
\* and meets the required deposit (or the deposit step is off), the account
\* has basic access when the engine returns; so for a direct call and for
\* the call a postback makes.
GrantWhenSatisfied ==
    (/\ last.out.flows = 1
     /\ Account # NoUser
     /\ Account.is_registered \/ Account.trader_id # NoTrader
     /\ \E st \in settings :
           /\ ~st.require_subscription \/ Account.is_subscribed
           /\ DepositMet(st)) =>
        Account.has_basic_access

\* the sum of the rows the account owned before the last operation
TotalBefore ==
    SumRows(last.pre_deposits,
            {r \in BagToSet(last.pre_deposits) : r.user_id = Account.id})

\* C6: when a deposit row is inserted (by a deposit postback or by the
\* admin's "give deposit") that takes the total of an account that is not
\* VIP from below a positive VIP threshold to it or above, the account is
\* VIP once the advance call that follows has returned and the user was
\* told so exactly once.
VipOnCrossing ==
    (/\ last.op \in DepositEvents \cup {"give_dep"}
     /\ last.pre_user # NoUser /\ ~last.pre_user.is_vip
     /\ last.out.flows = 1
     /\ \E st \in settings :
           /\ st.vip_threshold_amount > 0
           /\ TotalBefore < st.vip_threshold_amount
           /\ OwnedTotal >= st.vip_threshold_amount) =>
        Account.is_vip /\ VipNotices = 1

\* C7: the total the engine read and the total the deposit handler read
\* are the sum of the rows the account owns, counted with their
\* multiplicity (0 when it owns none).
TotalIsSumOfRows ==
    /\ last.out.flow_total # <<>> => last.out.flow_total = <<OwnedTotal>>
    /\ last.out.pb_total # <<>> => last.out.pb_total = <<OwnedTotal>>

\* a deposit postback on an account with two rows, where the handler and
\* then the engine each read the total
TotalIsSumOfRowsSeen ==
    /\ last.op \in DepositEvents
    /\ Len(last.out.pb_total) = 1 /\ Len(last.out.flow_total) = 1
    /\ BagCardinality(deposits) = 2
    /\ OwnedTotal # 0

\* C8: on the happy path (subscription and deposit required, 100 required,
\* VIP at 500, links set) the deposit of 100 ends in the grant step with
\* basic access and without VIP; the further deposit of 400 ends with VIP,
\* the user told so, and basic access kept.
HappyPath ==
    /\ scn = "deposited" =>
          /\ last.out.granted /\ "access_granted" \in Kinds
          /\ OwnedTotal = 10000
          /\ Account.has_basic_access /\ ~Account.is_vip
    /\ scn = "topped_up" =>
          /\ OwnedTotal = 50000
          /\ Account.is_vip /\ Account.has_basic_access
          /\ "vip_granted" \in Kinds /\ VipNotices = 1

\* the happy path was followed to its end
HappyPathSeen == scn = "topped_up" /\ last.out.became_vip

\* a parameter that is not the text of a number
NotANumber(raw) == ~ParseFloat(raw).ok \/ ParseFloat(raw).nan

\* the required parameters of a request to endpoint op are malformed
Malformed(op, req) ==
    \/ Falsy(req.trader_id) \/ Falsy(req.click_id)
    \/ ~ParseInt(req.click_id).ok
    \/ op # "registration" /\ (req.amount = Absent \/ NotANumber(req.amount))

\* C10: a postback with malformed required parameters creates and changes
\* no account, writes no deposit row, does not run the engine and sends no
\* message to the user or to the operations chat; on all four endpoints.
MalformedRejected ==
    (/\ last.op \in {"registration", "withdraw"} \cup DepositEvents
     /\ Malformed(last.op, last.req)) =>
        /\ users = last.pre_users
        /\ deposits = last.pre_deposits
        /\ last.out.flows = 0
        /\ last.out.msgs = <<>>
        /\ last.out.group = <<>>

\* the endpoints of the receiver that report an event
PostbackOps == {"registration", "withdraw"} \cup DepositEvents

\* the soft-reject body the first failing check of endpoint op gives, in
\* the order missing, click id, amount
FirstProblem(op, req) ==
    IF \/ Falsy(req.trader_id) \/ Falsy(req.click_id)
       \/ op # "registration" /\ req.amount = Absent
    THEN "MISSING_PARAMS"
    ELSE IF ~ParseInt(req.click_id).ok THEN "BAD_CLICK_ID"
    ELSE IF op = "withdraw" THEN "BAD_WDR_SUM"
    ELSE "BAD_SUMDEP"

\* C11: on every postback endpoint a request (let through by the secret
\* check) with malformed required parameters is answered with the
\* soft-reject body of its first failing check, in the order missing, click
\* id, amount; never with a server error and never with a plain OK.
SoftReject ==
    (/\ last.op \in PostbackOps
     /\ check_secret(env, last.req)
     /\ Malformed(last.op, last.req)) =>
        last.out.resp = FirstProblem(last.op, last.req)

\* C12: with a secret configured, a request to a postback endpoint that
\* carries the right secret neither in the query nor in the header is
\* answered 403 before any processing: no users, deposits or settings row
\* is created or changed, the engine is not run, nothing is sent or
\* forwarded.  With no secret configured no request is answered 403.
SecretRequired ==
    (last.op \in PostbackOps \cup {"catch_all"}) =>
        /\ (/\ env.secret # None
            /\ last.req.secret_q # env.secret
            /\ last.req.secret_h # env.secret) =>
               /\ last.out.resp = "403"
               /\ users = last.pre_users
               /\ deposits = last.pre_deposits
               /\ settings = last.pre_settings
               /\ last.out.flows = 0
               /\ last.out.msgs = <<>> /\ last.out.group = <<>>
        /\ env.secret = None => last.out.resp # "403"

\* C13: a withdraw postback, valid or not, creates no account, changes no
\* account field, writes no deposit row, does not run the engine and sends
\* nothing to the user; at most one notification goes to the operations
\* chat.
WithdrawFrame ==
    last.op = "withdraw" =>
        /\ users = last.pre_users
        /\ deposits = last.pre_deposits
        /\ last.out.flows = 0
        /\ last.out.msgs = <<>>
        /\ last.out.group \in {<<>>, <<"withdraw">>}

\* a valid withdraw postback for an account with deposits was forwarded
WithdrawFrameSeen ==
    /\ last.op = "withdraw" /\ last.out.resp = "OK"
    /\ last.pre_user # NoUser /\ deposits # EmptyBag
    /\ last.out.group = <<"withdraw">>

\* the operations chat is set and forwarding of registrations is on
ForwardsRegistration ==
    \E st \in settings :
        st.postbacks_chat_id # None /\ st.send_postbacks_registration

\* C14: a valid registration postback for click id X leaves the account
\* with telegram id X registered and carrying the trader id of the request;
\* the handler commits, then runs the engine (which sees the committed row:
\* it does not ask for registration), then forwards the notification when
\* forwarding is on; in this order.
RegistrationOrder ==
    (/\ last.op = "registration"
     /\ check_secret(env, last.req)
     /\ ~Malformed("registration", last.req)) =>
        /\ last.out.resp = "OK"
        /\ Account.telegram_id = ParseInt(last.req.click_id).val
        /\ Account.is_registered
        /\ Account.trader_id = last.req.trader_id
        /\ last.out.flows = 1
        /\ "registration" \notin Kinds
        /\ last.out.trace = IF ForwardsRegistration
                            THEN <<"commit", "advance", "forward">>
                            ELSE <<"commit", "advance">>

\* a registration postback created the account, the engine went on to the
\* deposit prompt, and the notification was forwarded
RegistrationOrderSeen ==
    /\ last.op = "registration" /\ last.pre_user = NoUser
    /\ Account.is_registered
    /\ Kinds = {"deposit"}
    /\ last.out.trace = <<"commit", "advance", "forward">>

\* the amount a well-formed request reports, in cents
Reported(req) == ParseFloat(req.amount).val

\* C15: a valid deposit postback for click id X, whether or not an account
\* X exists, ends with an account for X, with exactly one new deposit row
\* owned by it carrying the reported amount, and with the trader id of the
\* request when the account had none.
DepositRecorded ==
    (/\ last.op \in DepositEvents
     /\ check_secret(env, last.req)
     /\ ~Malformed(last.op, last.req)) =>
        /\ Account # NoUser
        /\ Account.telegram_id = ParseInt(last.req.click_id).val
        /\ deposits = last.pre_deposits (+)
               SetToBag({[user_id |-> Account.id, amount |-> Reported(last.req)]})
        /\ last.pre_user.trader_id = NoTrader =>
               Account.trader_id = last.req.trader_id

\* C16: at most one account exists per telegram id, also when two handlers
\* that looked the same unknown id up both go on to insert it.
UniqueExternalId ==
    \A u, v \in users : u.telegram_id = v.telegram_id => u = v

\* two handlers found no row for the same id; one inserted it, the other's
\* insert was refused
UniqueExternalIdSeen ==
    \E t \in TaskIds :
        /\ tasks[t].pc = "failed" /\ tasks[t].found = NoUser
        /\ \E u \in users : u.telegram_id = tasks[t].tg

\* C17: once an account has a trader id, no registration postback, deposit
\* postback, withdraw postback, advance call or subscription event changes
\* it to another value.
TraderRefKept ==
    (/\ last.op \in FunnelOps \cup {"chat_member"}
     /\ last.pre_user.trader_id # NoTrader
     /\ Account # NoUser) =>
        Account.trader_id = last.pre_user.trader_id

\* C18: every deposit row has an amount of 0 or more, whatever numeric
\* sumdep the deposit postbacks carry, so that a deposit postback never
\* lowers the total of an account.
AmountsNonNegative ==
    /\ \A r \in BagToSet(deposits) : r.amount >= 0
    /\ (last.op \in DepositEvents /\ Account # NoUser) =>
           OwnedTotal >= TotalBefore

\* C19: once an account is subscribed, no advance call, postback or
\* chat-member update (those reporting that the user left included) makes
\* it unsubscribed.
SubscribedMonotone ==
    [][\A u \in users :
          (u.is_subscribed /\ last'.op \in FunnelOps \cup {"chat_member"}) =>
              \E v \in users' : v.id = u.id /\ v.is_subscribed]_vars

\* a chat-member update of the channel reported that a subscribed user is
\* no longer a member, and the account is still subscribed
SubscribedMonotoneSeen ==
    /\ last.op = "chat_member" /\ last.out.resp = "left"
    /\ last.pre_user.is_subscribed
    /\ Account.is_subscribed

\* the notification operations of the engine
NotifyOps ==
    {"notify_vip_granted", "notify_basic_access_limited",
     "notify_vip_access_limited"}

\* C20: notify_vip_granted, notify_basic_access_limited and
\* notify_vip_access_limited create no account, change no account and
\* write no deposit row, in every state, the one where the identity has no
\* account included.
NotifyFrame ==
    last.op \in NotifyOps =>
        /\ users = last.pre_users
        /\ deposits = last.pre_deposits

\* the operations chat is set and forwarding of deposits is on
ForwardsDeposit ==
    \E st \in settings :
        st.postbacks_chat_id # None /\ st.send_postbacks_deposit

\* the steps a registration or deposit handler takes once its parameters
\* are accepted
StepsOf(op) ==
    <<"commit", "advance">>
    \o (IF op \in DepositEvents /\ last.out.became_vip THEN <<"notify">> ELSE <<>>)
    \o (IF (op = "registration" /\ ForwardsRegistration)
            \/ (op \in DepositEvents /\ ForwardsDeposit)
        THEN <<"forward">> ELSE <<>>)

\* C21: while the user's chat or the operations chat cannot be reached, a
\* valid registration postback, and a valid deposit postback for an
\* existing account, still answers OK and does not end in an exception;
\* the registration flags and trader id, the new deposit row and the VIP
\* flag the handler committed are in the ledger; access the engine granted
\* is in the ledger; and the handler went through all its steps (commit,
\* engine, VIP notification when VIP was reached, forwarding when it is on).
DeliveryFailureSwallowed ==
    (/\ env.down # {}
     /\ last.op \in {"registration"} \cup DepositEvents
     /\ check_secret(env, last.req)
     /\ ~Malformed(last.op, last.req)
     /\ last.op \in DepositEvents => last.pre_user # NoUser) =>
        /\ last.out.resp = "OK" /\ ~last.out.raised
        /\ last.out.trace = StepsOf(last.op)
        /\ last.out.granted => Account.has_basic_access
        /\ last.op = "registration" =>
              Account.is_registered /\ Account.trader_id = last.req.trader_id
        /\ last.op \in DepositEvents =>
              /\ deposits = last.pre_deposits (+)
                     SetToBag({[user_id |-> last.pre_user.id,
                                amount |-> Reported(last.req)]})
              /\ last.out.became_vip => Account.is_vip

\* a deposit postback reached VIP while no chat could be reached: the
\* engine's message, the VIP notification and the forwarding all raised
DeliveryFailureSwallowedSeen ==
    /\ env.down = Chats
    /\ last.op \in DepositEvents /\ last.out.resp = "OK"
    /\ last.out.became_vip /\ Account.is_vip
    /\ last.out.errors = <<"advance", "notify", "forward">>
    /\ last.out.msgs = <<>> /\ last.out.group = <<>>
\* the presentations of the engine's contract
Presentations == StepPrompts \cup {"access_granted"}

\* the last operation was an advance call that returned
AdvanceCompleted == last.op = "advance" /\ ~last.out.raised

\* C22 as stated: every advance call that completes sends exactly one
\* message, and it is a subscription, registration or deposit prompt, a
\* configuration error or the access-granted message.
OnePresentationOfFive ==
    AdvanceCompleted =>
        /\ Len(last.out.msgs) = 1
        /\ last.out.msgs[1].kind \in Presentations

\* C22: every advance call that completes sends exactly one message.  For
\* an account that held basic access or VIP it is the mini-app link (or
\* the warning that no mini-app URL is set); for any other account it is a
\* subscription, registration or deposit prompt, a configuration error or
\* the access-granted message, the deposit prompt carrying the required
\* amount and the account's total.
OnePresentation ==
    AdvanceCompleted =>
        /\ Len(last.out.msgs) = 1
        /\ (last.pre_user.has_basic_access \/ last.pre_user.is_vip) =>
              last.out.msgs[1].kind \in {"miniapp", "miniapp_url_missing"}
        /\ ~(last.pre_user.has_basic_access \/ last.pre_user.is_vip) =>
              last.out.msgs[1].kind \in Presentations
        /\ last.out.msgs[1].kind = "deposit" =>
              /\ last.out.msgs[1].required
                     = SettingsRow(Ledger).deposit_required_amount
              /\ last.out.msgs[1].current = OwnedTotal

\* an advance call on a subscribed, unregistered account sent the
\* registration prompt and nothing else
OnePresentationSeen ==
    /\ AdvanceCompleted
    /\ last.pre_user # NoUser /\ last.pre_user.is_subscribed
    /\ last.out.msgs = <<Msg("registration")>>
\* C23: whenever an operation's engine run sent the access-granted
\* message, other handlers having run between its steps or not, the account
\* exists with has_basic_access set, and with is_vip set when the message
\* carries the VIP part.
GrantAfterCommit ==
    \A i \in 1..Len(last.out.msgs) :
        last.out.msgs[i].kind = "access_granted" =>
            /\ Account # NoUser
            /\ Account.has_basic_access
            /\ last.out.msgs[i].vip => Account.is_vip
\* the kinds of message the engine sends at and after the registration
\* step when it is past the subscription step
PastSubscription == {"registration", "deposit", "access_granted"}

\* C24: with the subscription step on and channel_id unset, an advance
\* call on an account that is not subscribed leaves is_subscribed unset and
\* goes no further than the subscription step: no registration or deposit
\* prompt, no deposit total read, no grant.
UnconfiguredChannelStops ==
    (/\ last.op = "advance"
     /\ last.pre_user # NoUser /\ ~last.pre_user.is_subscribed
     /\ SettingsRow(Ledger).require_subscription
     /\ SettingsRow(Ledger).channel_id = None) =>
        /\ ~Account.is_subscribed
        /\ Kinds \cap PastSubscription = {}
        /\ last.out.flow_total = <<>>
        /\ ~last.out.granted
\* C25: when an advance call asks Telegram about the membership (the
\* subscription step is on, the channel is set, the account has no access
\* and is not subscribed) and the call raises or reports a non-member, the
\* invocation does not end in an exception, is_subscribed stays unset, the
\* one message is the subscription prompt, and no later step is evaluated:
\* no deposit total is read and nothing is granted.
FailClosed ==
    (/\ last.op = "advance"
     /\ last.out.api \in {"left", "error"}) =>
        /\ SettingsRow(Ledger).require_subscription
        /\ SettingsRow(Ledger).channel_id # None
        /\ ~last.pre_user.is_subscribed
        /\ ~last.out.raised /\ last.out.errors = <<>>
        /\ ~Account.is_subscribed
        /\ last.out.msgs = <<Msg("subscription")>>
        /\ last.out.flow_total = <<>>
        /\ ~last.out.granted /\ ~Account.has_basic_access /\ ~Account.is_vip
        /\ deposits = last.pre_deposits

\* the live check raised for a registered, funded account that is not
\* subscribed: it was asked to subscribe
FailClosedSeen ==
    /\ last.op = "advance" /\ last.out.api = "error"
    /\ last.pre_user.is_registered /\ OwnedTotal >= 10000
    /\ last.out.msgs = <<Msg("subscription")>>
    /\ ~Account.is_subscribed
\* C26: an advance call whose live check confirmed the membership leaves
\* is_subscribed set, and decides its later steps on the ledger as it is
\* when it decides them: it sends the registration prompt (or the ref_link
\* configuration error) only to an account that, at that moment, is not
\* registered and has no trader id, and the deposit prompt carries the
\* account's total of that moment.
FreshAfterSubscription ==
    (/\ last.op = "advance"
     /\ last.out.api = "member"
     /\ last.pre_user # NoUser) =>
        /\ Account.is_subscribed
        /\ (Kinds = {"registration"} \/ (Kinds = {"config_error"}
                                          /\ last.out.flow_total = <<>>)) =>
              ~last.pre_user.is_registered /\ last.pre_user.trader_id = NoTrader
        /\ Kinds = {"deposit"} => last.out.msgs[1].current = OwnedTotal
\* the last operation was an advance call that came to the deposit step:
\* it read the account's total
AtDepositStep == last.op = "advance" /\ last.out.flow_total # <<>>

\* C27: an advance call that comes to the deposit step (the account had no
\* access and is past subscription and registration) does the following
\* under settings row st.  Deposit required, required amount <= 0: the
\* configuration error, whatever the total.  Deposit required, total below
\* the required amount: the configuration error when deposit_link is unset,
\* else the deposit prompt with the required amount and the total.  In
\* these three cases nothing is granted and has_basic_access and is_vip
\* stay as they were.  Deposit not required: the step sends nothing and
\* the call goes on to the grant, whatever the total and the threshold.
DepositStep ==
    AtDepositStep =>
        LET st == SettingsRow(Ledger)
            stopped(m) == /\ last.out.msgs = <<m>>
                          /\ ~last.out.granted
                          /\ Account.has_basic_access = last.pre_user.has_basic_access
                          /\ Account.is_vip = last.pre_user.is_vip
                          /\ ~Account.has_basic_access /\ ~Account.is_vip
        IN  /\ last.pre_user # NoUser /\ ~HasAccess(last.pre_user)
            /\ (st.require_deposit /\ st.deposit_required_amount <= 0) =>
                  stopped(Msg("config_error"))
            /\ (st.require_deposit /\ st.deposit_required_amount > 0
                   /\ OwnedTotal < st.deposit_required_amount
                   /\ st.deposit_link = None) =>
                  stopped(Msg("config_error"))
            /\ (st.require_deposit /\ st.deposit_required_amount > 0
                   /\ OwnedTotal < st.deposit_required_amount
                   /\ st.deposit_link # None) =>
                  stopped([Msg("deposit") EXCEPT
                              !.required = st.deposit_required_amount,
                              !.current = OwnedTotal])
            /\ ~st.require_deposit =>
                  last.out.granted /\ Kinds = {"access_granted"}

\* the deposit step stopped a funded account because the required amount
\* is 0
DepositStepSeen ==
    /\ AtDepositStep
    /\ SettingsRow(Ledger).require_deposit
    /\ SettingsRow(Ledger).deposit_required_amount = 0
    /\ SettingsRow(Ledger).deposit_link # None
    /\ OwnedTotal >= 10000
    /\ Kinds = {"config_error"}
\* the account's total has reached a positive VIP threshold
VipReached ==
    /\ SettingsRow(Ledger).vip_threshold_amount > 0
    /\ OwnedTotal >= SettingsRow(Ledger).vip_threshold_amount

ShortCircuit == Kinds \cap {"miniapp", "miniapp_url_missing"} # {}

\* C29 as stated: the advance call that follows the admin's revoke of
\* basic access evaluates the funnel steps and does not take the fallback
\* path, whatever the account's other flags.
ReentersFunnelAnyFlags ==
    scn = "reentered" =>
        /\ ~ShortCircuit
        /\ Len(last.out.msgs) = 1 /\ Kinds \subseteq Presentations

\* C29: the advance call that follows the admin's revoke of basic access,
\* for an account that is not VIP whatever its other flags, evaluates the
\* funnel steps: its one message is a step prompt, a configuration error
\* or access-granted, not the mini-app of the fallback path.
ReentersFunnel ==
    (scn = "reentered" /\ ~last.pre_user.is_vip) =>
        /\ ~last.pre_user.has_basic_access
        /\ ~ShortCircuit
        /\ Len(last.out.msgs) = 1 /\ Kinds \subseteq Presentations

\* access was revoked from an account that met every step, and the next
\* advance call granted it again
ReentersFunnelSeen ==
    /\ scn = "reentered" /\ ~last.pre_user.is_vip
    /\ last.pre_user.is_registered /\ last.pre_user.is_subscribed
    /\ last.out.granted /\ Account.has_basic_access
\* the engine run of the last operation stopped at the registration step:
\* the registration prompt, or the configuration error sent before any
\* deposit total was read
AtRegistrationStep ==
    \/ "registration" \in Kinds
    \/ "config_error" \in Kinds /\ last.out.flow_total = <<>>

\* C30: an account with a trader id and is_registered unset (the trader id
\* came from a deposit postback, no registration postback was received) is
\* not stopped at the registration step: neither an advance call on it nor
\* the engine run of the deposit postback that sets the trader id sends
\* the registration prompt or the ref_link configuration error.
TraderRefRegisters ==
    /\ (/\ last.op = "advance"
        /\ ~last.pre_user.is_registered
        /\ last.pre_user.trader_id # NoTrader) => ~AtRegistrationStep
    /\ (/\ last.op \in DepositEvents
        /\ last.out.resp = "OK"
        /\ ~Account.is_registered) =>
            Account.trader_id # NoTrader /\ ~AtRegistrationStep

\* an advance call on an account that only a deposit postback gave a
\* trader id went past the registration step, with ref_link unset
TraderRefRegistersSeen ==
    /\ last.op = "advance"
    /\ ~last.pre_user.is_registered /\ last.pre_user.trader_id = T1
    /\ ~last.pre_user.has_basic_access /\ ~last.pre_user.is_vip
    /\ SettingsRow(Ledger).ref_link = None
    /\ last.out.flow_total # <<>>
\* the kind of operational notification of a postback endpoint
KindOf(op) == IF op \in DepositEvents THEN "deposit" ELSE op

\* the operations chat is set and forwarding of the kind is switched on
Forwards(kind) ==
    \E st \in settings :
        /\ st.postbacks_chat_id # None
        /\ CASE kind = "registration" -> st.send_postbacks_registration
             [] kind = "deposit"      -> st.send_postbacks_deposit
             [] kind = "withdraw"     -> st.send_postbacks_withdraw

\* C31: a registration, deposit or withdraw postback forwards at most the
\* one notification of its kind, and only when the settings query
\* answered, postbacks_chat_id is set and the switch of that kind is on;
\* an accepted event is then forwarded.  With the chat unset, the switch
\* off or the settings query raising nothing is sent, the handler does not
\* end in an exception and an accepted event is still answered OK.
ForwardGated ==
    last.op \in {"registration", "withdraw"} \cup DepositEvents =>
        /\ last.out.group \in {<<>>, <<KindOf(last.op)>>}
        /\ last.out.group # <<>> =>
              Forwards(KindOf(last.op)) /\ ~env.settings_fail
        /\ (last.out.resp = "OK" /\ Forwards(KindOf(last.op))
               /\ ~env.settings_fail /\ "ops" \notin env.down) =>
              last.out.group = <<KindOf(last.op)>>
        /\ ~last.out.raised
        /\ env.settings_fail =>
              (last.out.resp = "OK" <=> "settings" \in
                  {last.out.errors[i] : i \in 1..Len(last.out.errors)})

\* a withdraw was forwarded with the deposit switch off, and a deposit
\* was not
ForwardGatedSeen ==
    /\ last.op = "withdraw" /\ last.out.group = <<"withdraw">>
    /\ ~Forwards("deposit") /\ ~Forwards("registration")

\* C32: the deposit receiver is not idempotent: when an accepted deposit
\* event is delivered again (same trader_id, click_id and sumdep) and
\* accepted, the table holds one more row of the account with that amount
\* for each delivery and nothing else changed in it, and the total the
\* second delivery computes is the total before the first plus twice the
\* amount.
DuplicateCounts ==
    [][(/\ last.op \in DepositEvents /\ last.out.resp = "OK"
        /\ last'.op \in DepositEvents /\ last'.out.resp = "OK"
        /\ last'.req = last.req)
       => LET acc == UserByTg(Ledger, last.tg)
              dep == [user_id |-> acc.id, amount |-> SumdepOf(last.req)]
              before == SumRows(last.pre_deposits,
                          {r \in BagToSet(last.pre_deposits) :
                              r.user_id = acc.id})
          IN  /\ deposits' = (last.pre_deposits (+) SetToBag({dep}))
                                 (+) SetToBag({dep})
              /\ last'.out.pb_total = <<before + 2 * SumdepOf(last.req)>>
              /\ _get_total_deposit(Ledger, acc.id)'
                    = before + 2 * SumdepOf(last.req)]_vars

\* a deposit whose row was already in the table took the total from below
\* the VIP threshold to above it, and the account became VIP
DuplicateCountsSeen ==
    /\ last.op \in DepositEvents /\ last.out.resp = "OK"
    /\ last.pre_user.trader_id = last.req.trader_id
    /\ BagIn([user_id |-> Account.id, amount |-> SumdepOf(last.req)],
             last.pre_deposits)
    /\ \E st \in settings :
          /\ st.vip_threshold_amount > 0
          /\ TotalBefore < st.vip_threshold_amount
          /\ OwnedTotal >= st.vip_threshold_amount
    /\ last.out.became_vip

\* both deposit handlers have returned OK
BothDone ==
    \A t \in DepositTasks : tasks[t].pc = "done" /\ tasks[t].resp = "OK"

\* C33: two deposit postbacks for the same existing account, run one
\* after the other or interleaved in any way at their awaits, are both
\* kept: when both have returned, the table is the table from before the
\* first of them started plus the row of each, once each (twice for two
\* equal rows), and the account's total is the total from before plus
\* both amounts.
BothInsertsKept ==
    BothDone =>
        /\ deposits = (last.pre_deposits (+) SetToBag({RowOf(tasks["d1"])}))
                          (+) SetToBag({RowOf(tasks["d2"])})
        /\ OwnedTotal = TotalBefore + SumdepOf(tasks["d1"].req)
                                    + SumdepOf(tasks["d2"].req)

\* two handlers that ran at the same time each added a row of 400 to an
\* account that had a deposit before
BothInsertsKeptSeen ==
    /\ BothDone
    /\ \E t \in DepositTasks : tasks[t].raced
    /\ TotalBefore > 0
    /\ RowOf(tasks["d1"]) = RowOf(tasks["d2"])
    /\ CopiesIn(RowOf(tasks["d1"]), deposits) >= 2

\* no deposit handler is between its first await and its return
NoneInFlight == \A t \in DepositTasks : ~InFlight(t)

\* C37: with the settings fixed and no admin action, whenever every
\* deposit postback for the account that was started has returned (they
\* ran one after the other or at the same time, each with the advance
\* call it triggers), a positive vip_threshold_amount and a total of the
\* account at or above it imply that the account is VIP.
VipAfterDeposits ==
    NoneInFlight =>
        \A u \in users, st \in settings :
            (/\ st.vip_threshold_amount > 0
             /\ _get_total_deposit(Ledger, u.id) >= st.vip_threshold_amount)
            => u.is_vip

\* two handlers that ran at the same time brought 400 each to an account
\* without deposits and without a subscription: neither amount reaches
\* the threshold of 500 alone, no advance call gets to the grant step,
\* and the account is VIP
VipAfterDepositsSeen ==
    /\ BothDone
    /\ \E t \in DepositTasks : tasks[t].raced
    /\ TotalBefore = 0
    /\ \A t \in DepositTasks : SumdepOf(tasks[t].req) = 40000
    /\ Account.is_vip /\ ~Account.is_subscribed /\ ~Account.has_basic_access
    /\ \E st \in settings : st.vip_threshold_amount = 50000

\* the rows of users' whose id no row of users has
Created(before, after) == {u \in after : \A v \in before : v.id # u.id}

SettingsReaders == {"advance", "registration", "withdraw"} \cup DepositEvents

\* C35: the settings table holds at most one row.  An advance call and an
\* accepted postback that find none leave the row of defaults; no
\* operation of the bot or of the receiver removes the row or changes a
\* field of a row that exists.
SettingsSingleton ==
    /\ Cardinality(settings) <= 1
    /\ last.op # "none" =>
          /\ last.pre_settings # {} => settings = last.pre_settings
          /\ last.pre_settings = {} => settings \in {{}, {DefaultSettings}}
          /\ (last.op \in SettingsReaders /\ last.out.resp \in {"OK", "-"})
                => settings # {}

\* a withdraw postback found no settings row and left the row of defaults
SettingsSingletonSeen ==
    /\ last.op = "withdraw" /\ last.out.resp = "OK"
    /\ last.pre_settings = {} /\ settings = {DefaultSettings}

\* the update is one that takes effect: the subscription is required, the
\* channel is set, the update is for it and the user came in from outside
TakesEffect(ev) ==
    /\ \E st \in settings :
          st.require_subscription /\ st.channel_id # None
          /\ ev.chat = st.channel_id
    /\ ev.old_status \in {"left", "kicked"}
    /\ ev.new_status \in {"member", "administrator", "creator"}

\* C36: a chat-member update that takes effect marks the account of that
\* user, when there is one, as subscribed and then runs advance once for
\* that user, which therefore neither asks the platform nor shows the
\* subscription prompt; without an account it runs advance all the same.
\* Every other update changes no account, writes no deposit row, runs no
\* advance and sends nothing.
SubscriptionEvent ==
    [][\A ev \in SubscriptionEvents, api \in ApiAnswers :
          (last'.op = "chat_member" /\ ChannelSubscription(ev, api)) =>
              IF TakesEffect(ev)
              THEN /\ last'.out.trace = <<"advance">>
                   /\ UserByTg(Ledger, ev.tg) # NoUser =>
                         /\ UserByTg(Ledger, ev.tg)'.is_subscribed
                         /\ last'.out.api = None
                         /\ \A i \in 1..Len(last'.out.msgs) :
                               last'.out.msgs[i].kind # "subscription"
              ELSE /\ users' = users /\ deposits' = deposits
                   /\ last'.out.trace = <<>> /\ last'.out.msgs = <<>>]_vars

\* an update that takes effect found the account unsubscribed, and the
\* advance call it ran went past the subscription step without asking
\* the platform
SubscriptionEventSeen ==
    /\ last.op = "chat_member" /\ last.out.resp = "ok"
    /\ last.pre_user # NoUser /\ ~last.pre_user.is_subscribed
    /\ Account.is_subscribed
    /\ last.out.trace = <<"advance">> /\ last.out.api = None
    /\ "registration" \in Kinds

\* the last operation sent the account the mini-app link or the
\* access-granted message
Delivered == Kinds \cap {"miniapp", "access_granted"} # {}

\* C38: with the subscription required and the channel set, and no admin
\* action, an advance call or postback sends the mini-app link or the
\* access-granted message only to an account that is subscribed (without
\* admin actions an account that ever was subscribed still is).
NoDestinationUnsubscribed ==
    (/\ last.op \in FunnelOps
     /\ \E st \in settings : st.require_subscription /\ st.channel_id # None
     /\ Delivered) =>
        Account.is_subscribed

\* C40: every deposit row is owned by an account that exists, the admin's
\* delete of an account with deposits included, and an account that the
\* last operation created owns no deposit row from before.
NoOrphanDeposits ==
    /\ \A r \in BagToSet(deposits) : \E u \in users : u.id = r.user_id
    /\ (last.op # "none" /\ last.pre_user = NoUser /\ Account # NoUser) =>
          \A r \in BagToSet(last.pre_deposits) : r.user_id # Account.id

\* the step is one of the engine run of user 1: the run moved on, or it
\* ended with this step
EngineStep ==
    \/ tasks' # tasks
    \/ last'.op = "advance" /\ last' # last

\* the row but for the three flags the engine may write
Framed(u) ==
    [u EXCEPT !.is_subscribed = FALSE, !.has_basic_access = FALSE,
              !.is_vip = FALSE]

\* C39: every step of an advance call for user 1 leaves the deposit rows
\* and every account of another user as they were, and changes nothing of
\* the account of user 1 but is_subscribed, has_basic_access and is_vip
\* (an account it creates has the column defaults elsewhere); and no step
\* of any operation but the grant step of an advance call turns
\* has_basic_access on.
AdvanceFrame ==
    [][/\ EngineStep =>
            /\ deposits' = deposits
            /\ {u \in users' : u.telegram_id # 1}
                  = {u \in users : u.telegram_id # 1}
            /\ \A v \in users' : v.telegram_id = 1 =>
                  IF \E u \in users : u.telegram_id = 1
                  THEN \E u \in users : Framed(u) = Framed(v)
                  ELSE Framed(v) = NewUser(v.id, 1)
       /\ \A v \in users' :
            (v.has_basic_access
               /\ ~\E u \in users : u.id = v.id /\ u.has_basic_access)
            => \/ \E t \in FlowTasks : tasks[t].pc = "grant"
               \/ last'.out.granted]_vars
====
